---- MODULE Spec2Model ----
(***************************************************************************)
(* State-machine model of the hybrid travel agent                          *)
(* (src/src/agent/travel_agent.py), of the Streamlit form that drives it   *)
(* (src/app.py), of the standalone tools (src/src/tools), of the data      *)
(* loader (src/src/utils/data_loader.py) and of the output formatters      *)
(* (src/src/utils/formatters.py).                                          *)
(*                                                                         *)
(* Python values are modelled as records: a dict is a record with exactly  *)
(* the keys the code sets, None is the record NoneV, an object is a record *)
(* of its constructor arguments.  A call either returns a value or raises: *)
(* Returned(v) / Raised(e).                                                *)
(***************************************************************************)
EXTENDS Integers, Sequences, FiniteSets, TLC

(***************************************************************************)
(* Bounds of the model                                                     *)
(***************************************************************************)
\* plan_trip calls a library user makes on one instance
MaxCalls == 2

(***************************************************************************)
(* Program constants                                                       *)
(***************************************************************************)
FlightPrice == 4800
HotelPrice == 3200
DailyExpense == 800
MaxIterations == 15
HttpOk == 200
DefaultTemperature == 7

NoneV == [kind |-> "None"]
Unset == [kind |-> "Unset"]
Returned(v) == [kind |-> "return", value |-> v]
Raised(e) == [kind |-> "raise", exc |-> e]

(***************************************************************************)
(* Dates.  A date string "YYYY-MM-DD" is the tuple <<Y, M, D>> of the      *)
(* numbers it spells; any other tuple is a string strptime rejects.        *)
(***************************************************************************)
IsLeap(y) == (y % 4 = 0) /\ ((y % 100 # 0) \/ (y % 400 = 0))

DaysInMonth(y, m) ==
    IF m = 2 THEN (IF IsLeap(y) THEN 29 ELSE 28)
    ELSE IF m \in {4, 6, 9, 11} THEN 30 ELSE 31

RECURSIVE DaysBeforeMonth(_, _)
DaysBeforeMonth(y, m) ==
    IF m <= 1 THEN 0 ELSE DaysBeforeMonth(y, m - 1) + DaysInMonth(y, m - 1)

DaysBeforeYear(y) ==
    LET p == y - 1 IN p * 365 + (p \div 4) - (p \div 100) + (p \div 400)

\* datetime.toordinal(): day number in the proleptic Gregorian calendar
ToOrdinal(d) == DaysBeforeYear(d[1]) + DaysBeforeMonth(d[1], d[2]) + d[3]

\* datetime.strptime(s, "%Y-%m-%d"): the parsed day, or ValueError
strptime(s) ==
    IF /\ Len(s) = 3
       /\ s[1] \in 1..9999
       /\ s[2] \in 1..12
       /\ s[3] \in 1..DaysInMonth(s[1], s[2])
    THEN Returned(ToOrdinal(s))
    ELSE Raised("ValueError")

\* days = (end_dt - start_dt).days + 1
TripDaysShort(start_ord, end_ord) == end_ord - start_ord
TripDays(start_ord, end_ord) == (end_ord - start_ord) + 1

\* str.upper() on the city names of the model
upper(c) ==
    CASE c = "Delhi" -> "DELHI"
      [] c = "Goa" -> "GOA"
      [] c = "Agra" -> "AGRA"
      [] OTHER -> c

(***************************************************************************)
(* Input sets                                                              *)
(***************************************************************************)
ValidDates == { <<2024, 2, 27>>, <<2024, 3, 1>>, <<2024, 3, 4>> }
\* month 13; 29 February of a common year
BadDates == { <<2024, 13, 1>>, <<2023, 2, 29>> }
DateStrings == ValidDates \cup BadDates
Temperatures == {2, DefaultTemperature}

ApiRequests ==
    [source : {"Delhi"}, destination : {"Goa", "Agra"},
     start_date : DateStrings, end_date : DateStrings]

\* the form: text inputs, date pickers, temperature slider, verbose checkbox
FormDates == { <<2024, 3, 1>>, <<2024, 3, 4>> }
FormInputs ==
    [source : {"", "Delhi"}, destination : {"", "Goa"},
     start_date : FormDates, end_date : FormDates,
     temperature : {DefaultTemperature}, verbose : BOOLEAN]

\* the sample trip of the command-line demo
SampleTrip ==
    [source |-> "Delhi", destination |-> "Goa",
     start_date |-> <<2024, 3, 1>>, end_date |-> <<2024, 3, 4>>]

(***************************************************************************)
(* The outside world the constructor probes                                *)
(***************************************************************************)
\* one entry of the local service's model list, with or without a name
Llama == [name |-> "llama3.2"]
Mistral == [name |-> "mistral"]
Nameless == [size |-> "2GB"]

\* response.json(): not JSON, an object without "models", or a model list
Bodies ==
    { [valid |-> FALSE], [valid |-> TRUE],
      [valid |-> TRUE, models |-> <<>>],
      [valid |-> TRUE, models |-> <<Llama>>],
      [valid |-> TRUE, models |-> <<Mistral, Llama>>],
      [valid |-> TRUE, models |-> <<Nameless>>] }

OllamaWorld(requests, net, status, community, body, ctor) ==
    [requests |-> requests, net |-> net, status |-> status,
     community |-> community, body |-> body, ctor |-> ctor]

GoodBody == [valid |-> TRUE, models |-> <<Llama>>]

\* requests importable?; connection outcome; HTTP status; langchain_community
\* importable?; response body; does Ollama(...) construct?
OllamaWorlds ==
    { OllamaWorld(FALSE, "response", HttpOk, TRUE, GoodBody, TRUE) }
    \cup { OllamaWorld(TRUE, n, HttpOk, TRUE, GoodBody, TRUE) : n \in {"refused", "timeout"} }
    \cup { OllamaWorld(TRUE, "response", 500, TRUE, GoodBody, TRUE) }
    \cup { OllamaWorld(TRUE, "response", HttpOk, c, b, k) :
             c \in BOOLEAN, b \in Bodies, k \in BOOLEAN }

\* os.getenv("GOOGLE_API_KEY"): unset, empty or a key; langchain_google_genai
\* importable?; does ChatGoogleGenerativeAI(...) construct?
GeminiWorlds ==
    { [key |-> NoneV, genai |-> TRUE, ctor |-> TRUE],
      [key |-> [kind |-> "str", value |-> ""], genai |-> TRUE, ctor |-> TRUE] }
    \cup { [key |-> [kind |-> "str", value |-> "AIza"], genai |-> g, ctor |-> k] :
             g \in BOOLEAN, k \in BOOLEAN }

\* langchain_experimental's create_react_agent importable?; does the react
\* agent build?; does the hub fallback (import, pull, build) succeed?
BuildWorlds ==
    { [experimental |-> TRUE, react |-> r, hub |-> TRUE] : r \in BOOLEAN }
    \cup { [experimental |-> FALSE, react |-> TRUE, hub |-> h] : h \in BOOLEAN }

Worlds == [ollama : OllamaWorlds, gemini : GeminiWorlds, build : BuildWorlds]

\* the worlds used where the plan, not the detection, is explored
PlanWorlds ==
    [ollama : { OllamaWorld(TRUE, "refused", HttpOk, TRUE, GoodBody, TRUE),
                OllamaWorld(TRUE, "response", HttpOk, TRUE, GoodBody, TRUE) },
     gemini : { [key |-> NoneV, genai |-> TRUE, ctor |-> TRUE],
                [key |-> [kind |-> "str", value |-> "AIza"], genai |-> TRUE, ctor |-> TRUE] },
     build : BuildWorlds]

(***************************************************************************)
(* HybridTravelAgent: the capability detector                              *)
(***************************************************************************)
Detected(llm, provider, printed) ==
    [llm |-> llm, provider |-> provider, printed |-> printed]

\* the two except clauses shared by _try_ollama and _try_gemini
OnImportError(msg) == Detected(NoneV, "None", <<msg>>)
OnException(verbose, msg) ==
    Detected(NoneV, "None", IF verbose THEN <<msg>> ELSE <<>>)

\* _try_ollama: (llm, provider) and the diagnostics it prints
try_ollama_default_model(w, temperature, verbose) ==
    IF ~w.requests THEN OnImportError("langchain-community not installed")
    ELSE IF w.net # "response" THEN OnException(verbose, "Ollama not available")
    ELSE IF w.status # HttpOk THEN Detected(NoneV, "None", <<>>)
    ELSE IF ~w.community THEN OnImportError("langchain-community not installed")
    ELSE IF ~w.body.valid THEN OnException(verbose, "Ollama not available")
    ELSE LET models == IF "models" \in DOMAIN w.body /\ w.body.models # <<>>
                       THEN w.body.models ELSE <<[name |-> "llama3.2"]>>
         IN IF "name" \notin DOMAIN models[1]
            THEN OnException(verbose, "Ollama not available")
            ELSE IF ~w.ctor THEN OnException(verbose, "Ollama not available")
            ELSE Detected([kind |-> "Ollama", model |-> models[1].name,
                           temperature |-> temperature],
                          "ollama", <<"Using Ollama", "Privacy mode">>)
try_ollama(w, temperature, verbose) ==
    IF ~w.requests THEN OnImportError("langchain-community not installed")
    ELSE IF w.net # "response" THEN OnException(verbose, "Ollama not available")
    ELSE IF w.status # HttpOk THEN Detected(NoneV, "None", <<>>)
    ELSE IF ~w.community THEN OnImportError("langchain-community not installed")
    ELSE IF ~w.body.valid THEN OnException(verbose, "Ollama not available")
    ELSE LET models == IF "models" \in DOMAIN w.body THEN w.body.models ELSE <<>>
         IN IF models = <<>>
            THEN Detected(NoneV, "None",
                          <<"Ollama running but no models found", "Run: ollama pull llama3.2">>)
            ELSE IF "name" \notin DOMAIN models[1]
            THEN OnException(verbose, "Ollama not available")
            ELSE IF ~w.ctor THEN OnException(verbose, "Ollama not available")
            ELSE Detected([kind |-> "Ollama", model |-> models[1].name,
                           temperature |-> temperature],
                          "ollama", <<"Using Ollama", "Privacy mode">>)

\* _try_gemini
try_gemini(w, temperature, verbose) ==
    IF w.key = NoneV \/ w.key = [kind |-> "str", value |-> ""]
    THEN Detected(NoneV, "None", <<"GOOGLE_API_KEY not found">>)
    ELSE IF ~w.genai THEN OnImportError("langchain-google-genai not installed")
    ELSE IF ~w.ctor THEN OnException(verbose, "Gemini not available")
    ELSE Detected([kind |-> "ChatGoogleGenerativeAI", model |-> "gemini-1.5-flash",
                   google_api_key |-> w.key.value, temperature |-> temperature],
                  "gemini", <<"Using Google Gemini", "Cloud mode">>)

\* the last step of _auto_initialize_llm
DemoFallback ==
    Detected(NoneV, "demo", <<"No LLM available, using demo mode", "For AI features">>)

\* bool(llm) of "if llm:"
Truthy(llm) == llm # NoneV

\* _initialize_tools: the names of the five Tool objects, in order
ToolNames ==
    <<"flight_search", "hotel_search", "weather_lookup", "places_search",
      "budget_calculator">>

AgentExecutor(via, llm, tools, verbose) ==
    [kind |-> "AgentExecutor", agent |-> via, llm |-> llm, tools |-> tools,
     verbose |-> verbose, max_iterations |-> MaxIterations,
     handle_parsing_errors |-> TRUE]

\* _create_agent: None in demo mode, else the executor, built the react way or,
\* after an ImportError, the structured-chat way; any other failure is raised
create_agent_swallowing(llm, tools, verbose, w) ==
    IF ~Truthy(llm) THEN Returned(NoneV)
    ELSE IF w.experimental
         THEN IF w.react
              THEN Returned(AgentExecutor("react", llm, tools, verbose))
              ELSE Returned(NoneV)
         ELSE IF w.hub
              THEN Returned(AgentExecutor("structured_chat", llm, tools, verbose))
              ELSE Returned(NoneV)
create_agent(llm, tools, verbose, w) ==
    IF ~Truthy(llm) THEN Returned(NoneV)
    ELSE IF w.experimental
         THEN IF w.react
              THEN Returned(AgentExecutor("react", llm, tools, verbose))
              ELSE Raised("Exception")
         ELSE IF w.hub
              THEN Returned(AgentExecutor("structured_chat", llm, tools, verbose))
              ELSE Raised("Exception")

(***************************************************************************)
(* HybridTravelAgent: demo planning                                        *)
(***************************************************************************)
activities ==
    <<"Beach relaxation & water sports", "Heritage sites & local culture",
      "Shopping & cuisine exploration", "Adventure activities",
      "Scenic tours & photography">>

\* activities[i % len(activities)] for the 0-based day index i
ThemeClamped(i) == activities[IF i < Len(activities) THEN i + 1 ELSE Len(activities)]
Theme(i) == activities[(i % Len(activities)) + 1]

\* for i in range(days): "Day {i+1}: {theme}"
DayLines(days) ==
    [n \in 1..days |-> [day |-> n, activity |-> Theme(n - 1)]]

\* total = 4800 + (3200 * days) + (800 * days)
DemoTotalFlatDaily(days) == FlightPrice + (HotelPrice * days) + DailyExpense
DemoTotal(days) == FlightPrice + (HotelPrice * days) + (DailyExpense * days)

\* the itinerary text, as the values interpolated into its template
DemoItinerary(source, dest, days) ==
    [title_days |-> days, title_dest |-> upper(dest),
     flight |-> [airline |-> "IndiGo", price |-> FlightPrice,
                 source |-> source, dest |-> dest],
     hotel |-> [name |-> "Sea View Resort", per_night |-> HotelPrice],
     day_lines |-> DayLines(days),
     budget |-> [total |-> DemoTotal(days), flight |-> FlightPrice,
                 hotel |-> HotelPrice * days, food |-> DailyExpense * days]]

\* _demo_plan_trip
demo_plan_trip(source, dest, start, end) ==
    LET start_dt == strptime(start)
        end_dt == strptime(end)
    IN IF start_dt.kind = "raise" THEN start_dt
       ELSE IF end_dt.kind = "raise" THEN end_dt
       ELSE Returned([status |-> "success", provider |-> "demo",
                      itinerary |-> DemoItinerary(source, dest,
                                       TripDays(start_dt.value, end_dt.value))])

(***************************************************************************)
(* HybridTravelAgent.plan_trip: the result dicts of the AI branch          *)
(***************************************************************************)
Narratives == {"Day 1: Baga Beach ...", "Final itinerary for Agra ..."}
EngineErrors == {"Connection refused", "Rate limit exceeded"}
\* what AgentExecutor answers when max_iterations is used up (its default
\* early_stopping_method is "force": it returns, it does not raise)
StoppedText == "Agent stopped due to iteration limit or time limit."

\* return {"status": "success", "provider": ..., "itinerary": result["output"]}
plan_success(p, output) ==
    Returned([status |-> "success", provider |-> p, itinerary |-> output])

\* except Exception as e: return {"status": "error", ..., "message": str(e)}
plan_error_generic(p, e) ==
    Returned([status |-> "error", provider |-> p, message |-> "Planning failed"])
plan_error(p, e) ==
    Returned([status |-> "error", provider |-> p, message |-> e])

(***************************************************************************)
(* app.py: the form                                                        *)
(***************************************************************************)
\* the two checks made when the button is pressed; "ok" when both pass.
\* date_input yields date objects, compared as dates
validate_cities_only(f) ==
    IF f.source = "" \/ f.destination = ""
    THEN "Please fill in source and destination cities!"
    ELSE "ok"
validate(f) ==
    IF f.source = "" \/ f.destination = ""
    THEN "Please fill in source and destination cities!"
    ELSE IF ToOrdinal(f.end_date) <= ToOrdinal(f.start_date)
    THEN "End date must be after start date!"
    ELSE "ok"

\* the keyword arguments of agent.plan_trip(...); strftime("%Y-%m-%d") of a
\* date object spells the date it holds
form_request(f) ==
    [source |-> f.source, destination |-> f.destination,
     start_date |-> f.start_date, end_date |-> f.end_date]

NoUi == [kind |-> "blank"]

\* what the caller does with the way plan_trip ended
Show(d, r) ==
    IF d = "api" THEN NoUi
    ELSE IF r.kind = "raise"
    THEN IF d = "app" THEN [kind |-> "error", text |-> "An error occurred"]
         ELSE [kind |-> "traceback", exc |-> r.exc]
    ELSE IF r.value.status = "success"
    THEN [kind |-> "itinerary", body |-> r.value.itinerary]
    ELSE [kind |-> "error", text |-> r.value.message]

(***************************************************************************)
(* State                                                                   *)
(***************************************************************************)
VARIABLES
    env,          \* the outside world the instance is constructed in
    pc,           \* "idle", the constructor's steps, "ready", "invoke"
    driver,       \* who runs the instance: "none", "api", "app", "script"
    form,         \* app: the form values of the last button press, or NoneV
    pending,      \* the request the driver passes to plan_trip next, or NoneV
    verbose,      \* self.verbose
    temperature,  \* self.temperature, in tenths
    llm,          \* self.llm
    provider,     \* self.provider
    tools,        \* self.tools
    agent,        \* self.agent
    tries,        \* probes made by the running constructor, per step
    log,          \* diagnostics printed by the running constructor
    request,      \* the arguments of the current (or last) plan_trip call
    rounds,       \* tool rounds of the current (or last) agent.invoke
    invoked,      \* how the last agent.invoke ended
    calls,        \* plan_trip calls finished on the instance
    outcome,      \* how the constructor or the last finished plan_trip ended
    ui,           \* what the caller shows
    tpc,          \* position inside the tool or loader call in progress
    flights_data, \* FlightSearchTool.flights_data
    args,         \* the arguments of the tool or loader call
    outside,      \* what a tool call finds outside: the service, the file
    fetched,      \* the requests a tool call has sent over the network,
                  \* the files a loader call has opened
    locals,       \* the local variables of the call in progress
    ret,          \* what the last finished call returned or raised
    cache         \* the lru_cache of DataLoader.load_json

\* the state of the standalone tools and of the data loader
toolvars == <<tpc, flights_data, args, outside, fetched, locals, ret, cache>>

\* the state of the agent, of its callers and of the world it is built in
agentvars == <<env, pc, driver, form, pending, verbose, temperature, llm,
               provider, tools, agent, tries, log, request, rounds, invoked,
               calls, outcome, ui>>

vars == <<agentvars, toolvars>>

NoOutcome == [kind |-> "none"]
NoTries == [ollama |-> 0, gemini |-> 0]

\* no instance exists: the state a fresh run of either script starts from
NoInstance ==
    /\ pc' = "idle"
    /\ pending' = NoneV
    /\ verbose' = FALSE /\ temperature' = DefaultTemperature
    /\ llm' = Unset /\ provider' = "unset" /\ tools' = Unset /\ agent' = Unset
    /\ tries' = NoTries /\ log' = <<>> /\ calls' = 0
    /\ request' = NoneV /\ rounds' = 0 /\ invoked' = NoOutcome
    /\ outcome' = NoOutcome

\* no tool object and no loader exists, no call is in progress
NoToolCall ==
    /\ tpc = "idle" /\ flights_data = Unset /\ args = NoneV
    /\ outside = NoneV /\ fetched = <<>> /\ locals = NoneV /\ ret = NoneV
    /\ cache = <<>>

\* no agent exists, in a world of W
NoAgentIn(W) ==
    /\ env \in W
    /\ pc = "idle" /\ driver = "none" /\ form = NoneV /\ pending = NoneV
    /\ verbose = FALSE /\ temperature = DefaultTemperature
    /\ llm = Unset /\ provider = "unset" /\ tools = Unset /\ agent = Unset
    /\ tries = NoTries /\ log = <<>> /\ calls = 0
    /\ request = NoneV /\ rounds = 0 /\ invoked = NoOutcome
    /\ outcome = NoOutcome /\ ui = NoUi

InitIn(W) == NoAgentIn(W) /\ NoToolCall

\* no instance exists and none is being constructed.  Begin resets every
\* variable but env, so a new run started after a finished one would only
\* repeat the states of a first run
AtRest == pc = "idle"

(***************************************************************************)
(* HybridTravelAgent.__init__, step by step                                *)
(***************************************************************************)
\* __init__ up to the call of _try_ollama
Begin(d, t, v, req, f) ==
    /\ driver' = d /\ form' = f /\ pending' = req
    /\ verbose' = v /\ temperature' = t
    /\ llm' = Unset /\ provider' = "unset" /\ tools' = Unset /\ agent' = Unset
    /\ tries' = NoTries /\ log' = <<"Auto-detecting available LLM">>
    /\ request' = NoneV /\ rounds' = 0 /\ invoked' = NoOutcome
    /\ calls' = 0 /\ outcome' = NoOutcome /\ ui' = NoUi
    /\ pc' = "try_ollama"
    /\ UNCHANGED <<toolvars, env>>

\* where _auto_initialize_llm goes after _try_ollama
AfterOllamaRetry(r) == IF Truthy(r.llm) THEN "init_tools" ELSE "try_ollama"
AfterOllamaSkip(r) == "try_gemini"
AfterOllama(r) == IF Truthy(r.llm) THEN "init_tools" ELSE "try_gemini"

\* _auto_initialize_llm, first step: llm, provider = self._try_ollama()
TryOllama ==
    /\ pc = "try_ollama"
    /\ LET r == try_ollama(env.ollama, temperature, verbose)
       IN /\ tries' = [tries EXCEPT !.ollama = @ + 1]
          /\ log' = log \o r.printed
          /\ pc' = AfterOllama(r)
          /\ IF AfterOllama(r) = "init_tools"
             THEN llm' = r.llm /\ provider' = r.provider
             ELSE UNCHANGED <<llm, provider>>
    /\ UNCHANGED <<toolvars, env, driver, form, pending, verbose, temperature, tools,
                   agent, request, rounds, invoked, calls, outcome, ui>>

\* _auto_initialize_llm, second step: _try_gemini, else (None, "demo")
TryGemini ==
    /\ pc = "try_gemini"
    /\ LET r == try_gemini(env.gemini, temperature, verbose)
           d == IF Truthy(r.llm) THEN r
                ELSE Detected(DemoFallback.llm, DemoFallback.provider,
                              r.printed \o DemoFallback.printed)
       IN /\ tries' = [tries EXCEPT !.gemini = @ + 1]
          /\ log' = log \o d.printed
          /\ llm' = d.llm /\ provider' = d.provider
    /\ pc' = "init_tools"
    /\ UNCHANGED <<toolvars, env, driver, form, pending, verbose, temperature, tools,
                   agent, request, rounds, invoked, calls, outcome, ui>>

\* self.tools = self._initialize_tools()
InitializeTools ==
    /\ pc = "init_tools"
    /\ tools' = ToolNames
    /\ pc' = "create_agent"
    /\ UNCHANGED <<toolvars, env, driver, form, pending, verbose, temperature, llm,
                   provider, agent, tries, log, request, rounds, invoked, calls,
                   outcome, ui>>

\* self.agent = self._create_agent(); an exception leaves __init__ and no
\* instance exists: app.py shows it, the demo script dies of it
CreateAgent ==
    /\ pc = "create_agent"
    /\ LET r == create_agent(llm, tools, verbose, env.build)
       IN IF r.kind = "return"
          THEN /\ agent' = r.value /\ pc' = "ready"
               /\ UNCHANGED <<pending, outcome, ui>>
          ELSE /\ agent' = Unset /\ pc' = "idle" /\ pending' = NoneV
               /\ outcome' = [kind |-> "init_raise", exc |-> r.exc]
               /\ ui' = IF driver = "app"
                        THEN [kind |-> "error", text |-> "Failed to initialize agent"]
                        ELSE IF driver = "script"
                        THEN [kind |-> "traceback", exc |-> r.exc]
                        ELSE NoUi
    /\ UNCHANGED <<toolvars, env, driver, form, verbose, temperature, llm, provider,
                   tools, tries, log, request, rounds, invoked, calls>>

(***************************************************************************)
(* HybridTravelAgent.plan_trip                                             *)
(***************************************************************************)
\* plan_trip ends: the caller gets the result or the exception.  No field of
\* the instance is assigned anywhere in plan_trip
DeliverFallback(r) ==
    /\ outcome' = r
    /\ calls' = calls + 1
    /\ pending' = NoneV
    /\ pc' = "ready"
    /\ ui' = Show(driver, r)
    /\ IF r.kind = "return" /\ r.value.status = "success"
       THEN UNCHANGED <<llm, provider, agent>>
       ELSE llm' = NoneV /\ provider' = "demo" /\ agent' = NoneV
    /\ UNCHANGED <<toolvars, env, driver, form, verbose, temperature, tools, tries, log>>
Deliver(r) ==
    /\ outcome' = r
    /\ calls' = calls + 1
    /\ pending' = NoneV
    /\ pc' = "ready"
    /\ ui' = Show(driver, r)
    /\ UNCHANGED <<toolvars, env, driver, form, verbose, temperature, llm, provider,
                   tools, agent, tries, log>>

\* the dates parsed at the head of the AI branch: start first, then end
ParseDates(req) ==
    LET start == strptime(req.start_date)
        end == strptime(req.end_date)
    IN IF start.kind = "raise" THEN start
       ELSE IF end.kind = "raise" THEN end
       ELSE Returned(TripDays(start.value, end.value))

\* plan_trip up to its return (demo mode, or a date that does not parse) or
\* up to self.agent.invoke (AI mode).  The goal text built from the request
\* goes to the engine only, and the engine's answer is any of its outcomes
plan_trip(req) ==
    /\ request' = req
    /\ rounds' = 0
    /\ invoked' = NoOutcome
    /\ IF provider = "demo"
       THEN Deliver(demo_plan_trip(req.source, req.destination,
                                   req.start_date, req.end_date))
       ELSE IF ParseDates(req).kind = "raise"
       THEN Deliver(ParseDates(req))
       ELSE /\ pc' = "invoke"
            /\ pending' = NoneV
            /\ outcome' = NoOutcome
            /\ ui' = NoUi
            /\ UNCHANGED <<toolvars, env, driver, form, verbose, temperature, llm,
                           provider, tools, agent, tries, log, calls>>

\* a library user calls plan_trip with any strings
ApiPlanTrip ==
    /\ pc = "ready" /\ driver = "api" /\ calls < MaxCalls
    /\ \E req \in ApiRequests : plan_trip(req)

\* app.py and the demo script call plan_trip once, right after construction
DriverPlanTrip ==
    /\ pc = "ready" /\ driver \in {"app", "script"} /\ pending # NoneV
    /\ plan_trip(pending)

(***************************************************************************)
(* self.agent.invoke: the executor's loop, one step of the engine at a     *)
(* time, and the rest of plan_trip once invoke has ended                   *)
(***************************************************************************)
\* try: result = invoke(...); return success dict / except: return error dict
after_invoke(p, r) ==
    IF r.kind = "return" THEN plan_success(p, r.value.output)
    ELSE plan_error(p, r.exc)

\* max_iterations rounds are used up: the executor returns its stop message
on_iteration_limit == Returned([output |-> StoppedText])

InvokeEnds(r) ==
    /\ invoked' = r
    /\ Deliver(after_invoke(provider, r))
    /\ UNCHANGED <<request, rounds>>

\* the engine asks for a tool; the tool runs and its result is fed back
AgentToolRound ==
    /\ pc = "invoke" /\ rounds < agent.max_iterations
    /\ rounds' = rounds + 1
    /\ UNCHANGED <<toolvars, env, pc, driver, form, pending, verbose, temperature, llm,
                   provider, tools, agent, tries, log, request, invoked, calls,
                   outcome, ui>>

\* the engine gives its final answer
AgentFinish ==
    /\ pc = "invoke" /\ rounds < agent.max_iterations
    /\ \E text \in Narratives : InvokeEnds(Returned([output |-> text]))

\* the engine (or the transport under it) raises
AgentRaise ==
    /\ pc = "invoke" /\ rounds < agent.max_iterations
    /\ \E e \in EngineErrors : InvokeEnds(Raised(e))

\* the round bound is reached without a final answer
AgentStopped ==
    /\ pc = "invoke" /\ rounds = agent.max_iterations
    /\ InvokeEnds(on_iteration_limit)

(***************************************************************************)
(* The callers                                                             *)
(***************************************************************************)
\* a library user constructs HybridTravelAgent(temperature, verbose)
Construct ==
    /\ AtRest
    /\ \E t \in Temperatures, v \in BOOLEAN : Begin("api", t, v, NoneV, NoneV)

\* create_streamlit_agent(): HybridTravelAgent(verbose=False), handed to the
\* library user
create_streamlit_agent ==
    /\ AtRest
    /\ Begin("api", DefaultTemperature, FALSE, NoneV, NoneV)

\* travel_agent.py main(): HybridTravelAgent() and the sample trip
ScriptMain ==
    /\ AtRest
    /\ Begin("script", DefaultTemperature, TRUE, SampleTrip, NoneV)

\* app.py main(), button pressed: a fresh run of the script; the form is
\* checked, and only then is the agent constructed
AppClick ==
    /\ AtRest
    /\ \E f \in FormInputs :
          IF validate(f) # "ok"
          THEN /\ NoInstance
               /\ driver' = "app" /\ form' = f
               /\ ui' = [kind |-> "error", text |-> validate(f)]
               /\ UNCHANGED <<toolvars, env>>
          ELSE Begin("app", f.temperature, f.verbose, form_request(f), f)

(***************************************************************************)
(* Specifications                                                          *)
(***************************************************************************)
Init == InitIn(PlanWorlds)

Next ==
    \/ create_streamlit_agent
    \/ ScriptMain
    \/ AppClick
    \/ TryOllama
    \/ TryGemini
    \/ InitializeTools
    \/ CreateAgent
    \/ ApiPlanTrip
    \/ DriverPlanTrip
    \/ AgentToolRound
    \/ AgentFinish
    \/ AgentRaise
    \/ AgentStopped

\* the whole life of an instance, over the worlds of PlanWorlds
Spec == Init /\ [][Next]_vars

InitDetect == InitIn(Worlds)

NextDetect ==
    \/ Construct
    \/ TryOllama
    \/ TryGemini
    \/ InitializeTools
    \/ CreateAgent

\* the constructor alone, over every world
SpecDetect == InitDetect /\ [][NextDetect]_vars

(***************************************************************************)
(* Text.  A str whose characters the code looks at is the sequence of its  *)
(* characters; a str that is only passed on is a TLA+ string.              *)
(***************************************************************************)
Letters ==
    [upper |-> <<"A", "B", "C", "D", "E", "F", "G", "H", "I", "J", "K", "L", "M",
                 "N", "O", "P", "Q", "R", "S", "T", "U", "V", "W", "X", "Y", "Z">>,
     lower |-> <<"a", "b", "c", "d", "e", "f", "g", "h", "i", "j", "k", "l", "m",
                 "n", "o", "p", "q", "r", "s", "t", "u", "v", "w", "x", "y", "z">>]
Whitespace == {" "}

\* str.lower()
lower(s) ==
    LET lower_char(c) ==
            IF \E i \in 1..Len(Letters.upper) : Letters.upper[i] = c
            THEN Letters.lower[CHOOSE i \in 1..Len(Letters.upper) : Letters.upper[i] = c]
            ELSE c
    IN [i \in 1..Len(s) |-> lower_char(s[i])]

RECURSIVE lstrip(_)
lstrip(s) == IF s # <<>> /\ Head(s) \in Whitespace THEN lstrip(Tail(s)) ELSE s

RECURSIVE rstrip(_)
rstrip(s) ==
    IF s # <<>> /\ s[Len(s)] \in Whitespace
    THEN rstrip(SubSeq(s, 1, Len(s) - 1))
    ELSE s

\* str.strip()
strip(s) == rstrip(lstrip(s))

\* dict.get(k, default)
Get(d, k, default) == IF k \in DOMAIN d THEN d[k] ELSE default

\* the city spellings of the model
City ==
    [ Delhi |-> <<"D", "e", "l", "h", "i">>,
      DelhiUpper |-> <<"D", "E", "L", "H", "I">>,
      DelhiPadded |-> <<"D", "e", "l", "h", "i", " ">>,
      DelhiLoose |-> <<" ", "d", "e", "l", "h", "i", " ">>,
      Goa |-> <<"G", "o", "a">>,
      GoaPadded |-> <<" ", "G", "o", "a">>,
      GoaLoose |-> <<"G", "O", "A", " ">>,
      Mumbai |-> <<"M", "u", "m", "b", "a", "i">>,
      Bangalore |-> <<"B", "a", "n", "g", "a", "l", "o", "r", "e">>,
      Agra |-> <<"A", "g", "r", "a">>,
      Pune |-> <<"P", "u", "n", "e">>,
      Paris |-> <<"P", "a", "r", "i", "s">> ]

(***************************************************************************)
(* FlightSearchTool (src/src/tools/flight_search_tool.py)                  *)
(***************************************************************************)
\* flights in a data set of the model (bound)
MaxFlights == 4

\* flights[:3] of _format_flight_output
TopCount == 3
\* the sort keys of a record without the field
NoPriceKey == 999999
NoDurationKey == 999

Flight(id, airline, source, destination, departure, arrival, minutes, price, seats) ==
    [flight_id |-> id, airline |-> airline, source |-> source,
     destination |-> destination, departure_time |-> departure,
     arrival_time |-> arrival, duration_minutes |-> minutes, price |-> price,
     available_seats |-> seats]

\* _get_sample_flights
SampleFlights ==
    << Flight("6E-123", "IndiGo", City.Delhi, City.Goa, "14:00", "16:30", 150, 4800, 45),
       Flight("SG-456", "SpiceJet", City.Delhi, City.Goa, "09:00", "11:45", 165, 5200, 30),
       Flight("AI-789", "Air India", City.Mumbai, City.Bangalore, "10:30", "12:00", 90, 3500, 60),
       Flight("UK-321", "Vistara", City.Bangalore, City.Delhi, "18:00", "21:00", 180, 6500, 25),
       Flight("6E-234", "IndiGo", City.Delhi, City.Mumbai, "06:00", "08:15", 135, 4200, 50) >>

\* data/flights.json as the model fills it: up to MaxFlights records of the
\* Delhi-Goa route, each with one of three fares; at most one record differs
\* from the rest in the spelling of a city, in its route, or in having no price
FlightFiles ==
    LET FlightIds == <<"F-1", "F-2", "F-3", "F-4", "F-5", "F-6">>
        Fares == { [price |-> 4800, duration_minutes |-> 150],
                   [price |-> 4800, duration_minutes |-> 165],
                   [price |-> 5200, duration_minutes |-> 150] }
        Oddities == {"upper_source", "padded_source", "padded_destination",
                     "other_source", "other_destination", "no_price"}
        FileFlight(i, fare, odd) ==
            LET source == CASE odd = "upper_source" -> City.DelhiUpper
                            [] odd = "padded_source" -> City.DelhiPadded
                            [] odd = "other_source" -> City.Mumbai
                            [] OTHER -> City.Delhi
                destination == CASE odd = "padded_destination" -> City.GoaPadded
                                 [] odd = "other_destination" -> City.Agra
                                 [] OTHER -> City.Goa
                f == Flight(FlightIds[i], "IndiGo", source, destination, "14:00",
                            "16:30", fare.duration_minutes, fare.price, 45)
            IN IF odd = "no_price"
               THEN [k \in DOMAIN f \ {"price"} |-> f[k]]
               ELSE f
    IN UNION { { [i \in 1..n |-> FileFlight(i, fares[i], IF i = at THEN odd ELSE "none")] :
                   fares \in [1..n -> Fares], at \in 0..n, odd \in Oddities }
               : n \in 0..MaxFlights }

\* _load_flights: the records of the file, or the sample data without a file
Datasets == FlightFiles \cup {SampleFlights}

\* the arguments of _run
FlightQueries ==
    { [source |-> City.Delhi, destination |-> City.Goa, sort_by |-> s] :
        s \in {"price", "duration", "departure"} }
    \cup { [source |-> r[1], destination |-> r[2], sort_by |-> "price"] :
             r \in {<<City.DelhiLoose, City.GoaLoose>>, <<City.Pune, City.Goa>>} }

\* _filter_flights
filter_flights(data, source, destination) ==
    LET source_lower == strip(lower(source))
        dest_lower == strip(lower(destination))
        Keep(flight) == /\ lower(Get(flight, "source", <<>>)) = source_lower
                        /\ lower(Get(flight, "destination", <<>>)) = dest_lower
    IN SelectSeq(data, Keep)

\* _format_duration
format_duration(minutes) ==
    LET hours == minutes \div 60
        mins == minutes % 60
    IN IF mins > 0 THEN [h |-> hours, m |-> mins] ELSE [h |-> hours]

\* the key functions of _sort_flights
SortKey(sort_by, x) ==
    IF sort_by = "duration"
    THEN Get(x, "duration_minutes", NoDurationKey)
    ELSE Get(x, "price", NoPriceKey)

\* sorted(): one record is put behind the records of the sorted part whose
\* key is not larger
InsertBeforeTies(done, x, sort_by) ==
    LET k == Cardinality({i \in 1..Len(done) : SortKey(sort_by, done[i]) < SortKey(sort_by, x)})
    IN SubSeq(done, 1, k) \o <<x>> \o SubSeq(done, k + 1, Len(done))
InsertByKey(done, x, sort_by) ==
    LET k == Cardinality({i \in 1..Len(done) : SortKey(sort_by, done[i]) <= SortKey(sort_by, x)})
    IN SubSeq(done, 1, k) \o <<x>> \o SubSeq(done, k + 1, Len(done))

RECURSIVE SortedFrom(_, _, _)
SortedFrom(done, rest, sort_by) ==
    IF rest = <<>> THEN done
    ELSE SortedFrom(InsertByKey(done, Head(rest), sort_by), Tail(rest), sort_by)

\* _sort_flights
sort_flights(flights, sort_by) == SortedFrom(<<>>, flights, sort_by)

\* f"{n:,}": the digits in groups of three
RECURSIVE Grouped(_)
Grouped(n) == IF n < 1000 THEN <<n>> ELSE Grouped(n \div 1000) \o <<n % 1000>>

\* flights[:3]
AllFlights(flights) == flights
TopFlights(flights) ==
    SubSeq(flights, 1, IF Len(flights) < TopCount THEN Len(flights) ELSE TopCount)

\* one numbered block of _format_flight_output
FlightEntry(i, flight) ==
    [no |-> i, airline |-> flight.airline, flight_id |-> flight.flight_id,
     source |-> flight.source, destination |-> flight.destination,
     price |-> Grouped(flight.price),
     departure_time |-> flight.departure_time,
     arrival_time |-> flight.arrival_time,
     duration |-> format_duration(Get(flight, "duration_minutes", 0)),
     available_seats |-> flight.available_seats]

\* _format_flight_output: the text, or the TypeError of formatting a missing
\* price with ","
format_flight_output(flights) ==
    IF flights = <<>>
    THEN Returned([head |-> "No flights found for this route."])
    ELSE LET top == TopFlights(flights)
         IN IF \E i \in 1..Len(top) : "price" \notin DOMAIN top[i]
            THEN Raised("unsupported format string passed to NoneType.__format__")
            ELSE Returned(
                   [head |-> "Found",
                    count |-> Len(flights),
                    listed |-> [i \in 1..Len(top) |-> FlightEntry(i, top[i])],
                    recommended |-> flights[1].airline,
                    best |-> IF Len(flights) > 1
                                /\ flights[1].price <= Get(flights[2], "price", NoPriceKey)
                             THEN "price" ELSE "duration"])

\* the message of the except branch of _run
FlightSearchError(e) == [head |-> "Error searching flights", detail |-> e]

\* the tools and the loader stand alone: no agent is constructed beside
\* them, in a world without engines
StandaloneWorld ==
    { [ollama |-> OllamaWorld(TRUE, "refused", HttpOk, TRUE, GoodBody, TRUE),
       gemini |-> [key |-> NoneV, genai |-> TRUE, ctor |-> TRUE],
       build |-> [experimental |-> TRUE, react |-> TRUE, hub |-> TRUE]] }

\* a FlightSearchTool exists and _run has been called
InitFlights ==
    /\ NoAgentIn(StandaloneWorld)
    /\ flights_data \in Datasets
    /\ args \in FlightQueries
    /\ tpc = "filter"
    /\ outside = NoneV /\ fetched = <<>> /\ locals = NoneV /\ ret = NoneV
    /\ cache = <<>>

\* _run: matching_flights = self._filter_flights(source, destination), and
\* the return when nothing matches
FilterFlights ==
    /\ tpc = "filter"
    /\ LET matching == filter_flights(flights_data, args.source, args.destination)
       IN /\ locals' = [matching_flights |-> matching]
          /\ IF matching = <<>>
             THEN /\ ret' = [head |-> "No direct flights found",
                             source |-> args.source,
                             destination |-> args.destination]
                  /\ tpc' = "done"
             ELSE /\ tpc' = "sort"
                  /\ UNCHANGED ret
    /\ UNCHANGED <<agentvars, flights_data, args, outside, fetched, cache>>

\* _run: sorted_flights = self._sort_flights(matching_flights, sort_by)
SortFlights ==
    /\ tpc = "sort"
    /\ locals' = [matching_flights |-> locals.matching_flights,
                  sorted_flights |-> sort_flights(locals.matching_flights, args.sort_by)]
    /\ tpc' = "format"
    /\ UNCHANGED <<agentvars, flights_data, args, outside, fetched, ret, cache>>

\* _run: return self._format_flight_output(sorted_flights), and the except
FormatFlightOutput ==
    /\ tpc = "format"
    /\ LET r == format_flight_output(locals.sorted_flights)
       IN ret' = IF r.kind = "raise" THEN FlightSearchError(r.exc) ELSE r.value
    /\ tpc' = "done"
    /\ UNCHANGED <<agentvars, flights_data, args, outside, fetched, locals, cache>>

NextFlights ==
    \/ FilterFlights
    \/ SortFlights
    \/ FormatFlightOutput

\* one call of FlightSearchTool._run, over the data sets and the queries
SpecFlights == InitFlights /\ [][NextFlights]_vars

(***************************************************************************)
(* WeatherTool (src/src/tools/weather_tool.py)                             *)
(***************************************************************************)
\* the largest day count a caller asks for (bound)
MaxDays == 10
\* the days the forecast service can serve (bound)
MaxServed == 8

\* min(days, 7) of _fetch_weather_data
ForecastCeiling == 7

\* the dict CITY_COORDINATES in the order it is written; coordinates in
\* ten-thousandths of a degree
CITY_COORDINATES ==
    << [key |-> <<"g", "o", "a">>,
        lat |-> 152993, lon |-> 741240,
        name |-> <<"G", "o", "a">>],
       [key |-> <<"b", "a", "n", "g", "a", "l", "o", "r", "e">>,
        lat |-> 129716, lon |-> 775946,
        name |-> <<"B", "a", "n", "g", "a", "l", "o", "r", "e">>],
       [key |-> <<"b", "e", "n", "g", "a", "l", "u", "r", "u">>,
        lat |-> 129716, lon |-> 775946,
        name |-> <<"B", "a", "n", "g", "a", "l", "o", "r", "e">>],
       [key |-> <<"d", "e", "l", "h", "i">>,
        lat |-> 287041, lon |-> 771025,
        name |-> <<"D", "e", "l", "h", "i">>],
       [key |-> <<"m", "u", "m", "b", "a", "i">>,
        lat |-> 190760, lon |-> 728777,
        name |-> <<"M", "u", "m", "b", "a", "i">>],
       [key |-> <<"c", "h", "e", "n", "n", "a", "i">>,
        lat |-> 130827, lon |-> 802707,
        name |-> <<"C", "h", "e", "n", "n", "a", "i">>],
       [key |-> <<"k", "o", "l", "k", "a", "t", "a">>,
        lat |-> 225726, lon |-> 883639,
        name |-> <<"K", "o", "l", "k", "a", "t", "a">>],
       [key |-> <<"h", "y", "d", "e", "r", "a", "b", "a", "d">>,
        lat |-> 173850, lon |-> 784867,
        name |-> <<"H", "y", "d", "e", "r", "a", "b", "a", "d">>],
       [key |-> <<"p", "u", "n", "e">>,
        lat |-> 185204, lon |-> 738567,
        name |-> <<"P", "u", "n", "e">>],
       [key |-> <<"j", "a", "i", "p", "u", "r">>,
        lat |-> 269124, lon |-> 757873,
        name |-> <<"J", "a", "i", "p", "u", "r">>],
       [key |-> <<"a", "h", "m", "e", "d", "a", "b", "a", "d">>,
        lat |-> 230225, lon |-> 725714,
        name |-> <<"A", "h", "m", "e", "d", "a", "b", "a", "d">>],
       [key |-> <<"l", "u", "c", "k", "n", "o", "w">>,
        lat |-> 268467, lon |-> 809462,
        name |-> <<"L", "u", "c", "k", "n", "o", "w">>],
       [key |-> <<"u", "d", "a", "i", "p", "u", "r">>,
        lat |-> 245854, lon |-> 737125,
        name |-> <<"U", "d", "a", "i", "p", "u", "r">>],
       [key |-> <<"a", "g", "r", "a">>,
        lat |-> 271767, lon |-> 780081,
        name |-> <<"A", "g", "r", "a">>],
       [key |-> <<"v", "a", "r", "a", "n", "a", "s", "i">>,
        lat |-> 253176, lon |-> 829739,
        name |-> <<"V", "a", "r", "a", "n", "a", "s", "i">>] >>

\* _get_coordinates: the entry of the lower-cased, stripped name, or None
get_coordinates_unstripped(city) ==
    LET city_key == lower(city)
        hits == SelectSeq(CITY_COORDINATES, LAMBDA e : e.key = city_key)
    IN IF hits = <<>> THEN NoneV ELSE hits[1]
get_coordinates(city) ==
    LET city_key == strip(lower(city))
        hits == SelectSeq(CITY_COORDINATES, LAMBDA e : e.key = city_key)
    IN IF hits = <<>> THEN NoneV ELSE hits[1]

\* a < b on str: by the code points of the characters
RECURSIVE TextLess(_, _)
TextLess(a, b) ==
    LET Ord(c) ==
            IF \E i \in 1..26 : Letters.upper[i] = c
            THEN 64 + (CHOOSE i \in 1..26 : Letters.upper[i] = c)
            ELSE IF \E i \in 1..26 : Letters.lower[i] = c
            THEN 96 + (CHOOSE i \in 1..26 : Letters.lower[i] = c)
            ELSE 32
    IN IF b = <<>> THEN FALSE
       ELSE IF a = <<>> THEN TRUE
       ELSE IF Ord(Head(a)) # Ord(Head(b)) THEN Ord(Head(a)) < Ord(Head(b))
       ELSE TextLess(Tail(a), Tail(b))

\* sorted(set(...)) on str
RECURSIVE SortedTexts(_)
SortedTexts(S) ==
    IF S = {} THEN <<>>
    ELSE LET least == CHOOSE x \in S : \A y \in S \ {x} : TextLess(x, y)
         IN <<least>> \o SortedTexts(S \ {least})

\* the names listed when a city is not found
AvailableCities ==
    SortedTexts({CITY_COORDINATES[i].name : i \in 1..Len(CITY_COORDINATES)})

\* _interpret_weather_code (the pictographs left out)
weather_codes ==
    << <<0, "Clear Sky">>,
       <<1, "Mainly Clear">>,
       <<2, "Partly Cloudy">>,
       <<3, "Overcast">>,
       <<45, "Foggy">>,
       <<48, "Foggy">>,
       <<51, "Light Drizzle">>,
       <<53, "Moderate Drizzle">>,
       <<55, "Dense Drizzle">>,
       <<61, "Slight Rain">>,
       <<63, "Moderate Rain">>,
       <<65, "Heavy Rain">>,
       <<71, "Slight Snow">>,
       <<73, "Moderate Snow">>,
       <<75, "Heavy Snow">>,
       <<80, "Rain Showers">>,
       <<81, "Rain Showers">>,
       <<82, "Heavy Showers">>,
       <<95, "Thunderstorm">>,
       <<96, "Thunderstorm with Hail">>,
       <<99, "Heavy Thunderstorm">> >>

interpret_weather_code(code) ==
    LET hits == SelectSeq(weather_codes, LAMBDA e : e[1] = code)
    IN IF hits = <<>> THEN "Unknown" ELSE hits[1][2]

\* the forecast service.  It is down, or it knows MaxServed days at most,
\* starting on 2024-02-27; the highs are one value on the first day and one
\* on the rest, and it rains on no day, on the first or on the last
Services ==
    LET ServiceDates ==
            << <<2024, 2, 27>>, <<2024, 2, 28>>, <<2024, 2, 29>>, <<2024, 3, 1>>,
               <<2024, 3, 2>>, <<2024, 3, 3>>, <<2024, 3, 4>>, <<2024, 3, 5>>,
               <<2024, 3, 6>>, <<2024, 3, 7>> >>
        Highs == {15, 20, 30, 35}
        Service(n, first, rest, wet) ==
            [up |-> TRUE,
             daily |->
               [time |-> SubSeq(ServiceDates, 1, n),
                temperature_2m_max |-> [i \in 1..n |-> IF i = 1 THEN first ELSE rest],
                temperature_2m_min |-> [i \in 1..n |-> (IF i = 1 THEN first ELSE rest) - 8],
                weathercode |-> [i \in 1..n |-> IF i = wet THEN 63 ELSE 0],
                precipitation_sum |-> [i \in 1..n |-> IF i = wet THEN 6 ELSE 0],
                precipitation_probability_max |->
                    [i \in 1..n |-> IF i = wet THEN 70 ELSE 10]]]
    IN { [up |-> FALSE] }
       \cup UNION { { Service(n, first, rest, wet) :
                         first \in Highs, rest \in Highs, wet \in {0, 1, n} }
                     : n \in 0..MaxServed }

\* the arguments of _run
WeatherCalls ==
    [city : {City.Goa, City.GoaLoose, City.Paris, <<>>}, days : 0..MaxDays]

\* "forecast_days": min(days, 7)
ForecastDays(days) == IF days < ForecastCeiling THEN days ELSE ForecastCeiling

\* requests.get(...), raise_for_status(), response.json(): the first
\* forecast_days days the service knows, or a RequestException
Respond(service, params) ==
    IF ~service.up THEN Raised("RequestException")
    ELSE LET n == IF params.forecast_days < Len(service.daily.time)
                  THEN params.forecast_days ELSE Len(service.daily.time)
         IN Returned([daily |-> [k \in DOMAIN service.daily |->
                                    SubSeq(service.daily[k], 1, n)]])

\* range(min(days, len(dates)))
ShownDaysAsAsked(days, dates) == days
ShownDays(days, dates) == IF days < Len(dates) THEN days ELSE Len(dates)

\* strftime("%A, %b %d") of fromisoformat(date): weekday (Monday = 0), month
\* and day of the month
DayName(date) ==
    [weekday |-> (strptime(date).value + 6) % 7, month |-> date[2], day |-> date[3]]

RECURSIVE Sum(_)
Sum(s) == IF s = <<>> THEN 0 ELSE Head(s) + Sum(Tail(s))

\* s[:n]
Prefix(s, n) == SubSeq(s, 1, IF n < Len(s) THEN n ELSE Len(s))

\* _format_weather_output: the text, or the text of the except branch
format_weather_output(city_name, weather_data, days) ==
    LET daily == Get(weather_data, "daily", [x \in {} |-> <<>>])
        dates == Get(daily, "time", <<>>)
        temp_max == Get(daily, "temperature_2m_max", <<>>)
        temp_min == Get(daily, "temperature_2m_min", <<>>)
        codes == Get(daily, "weathercode", <<>>)
        precipitation == Get(daily, "precipitation_sum", <<>>)
        precip_prob == Get(daily, "precipitation_probability_max", <<>>)
        n == ShownDays(days, dates)
        Entry(i) ==
            LET rain == IF i <= Len(precipitation) THEN precipitation[i] ELSE 0
                rain_prob == IF i <= Len(precip_prob) THEN precip_prob[i] ELSE 0
            IN [day |-> i,
                day_name |-> DayName(dates[i]),
                condition |-> interpret_weather_code(codes[i]),
                high |-> temp_max[i],
                low |-> temp_min[i],
                precipitation |-> IF rain > 0 \/ rain_prob > 20
                                  THEN [mm |-> rain, chance |-> rain_prob]
                                  ELSE NoneV]
        total == Sum(Prefix(temp_max, days))
        has_rain == \E i \in 1..Len(Prefix(precipitation, days)) : precipitation[i] > 5
    IN IF \E i \in 1..n : \/ i > Len(dates) \/ i > Len(codes)
                          \/ i > Len(temp_max) \/ i > Len(temp_min)
       THEN [head |-> "Error formatting weather data",
             detail |-> "list index out of range"]
       ELSE IF days = 0
       THEN [head |-> "Error formatting weather data",
             detail |-> "division by zero"]
       ELSE [head |-> "Weather Forecast for",
             city |-> city_name,
             days |-> [i \in 1..n |-> Entry(i)],
             clothing |-> IF total > 30 * days THEN "light, breathable clothing"
                          ELSE IF total < 20 * days THEN "warm layers"
                          ELSE "comfortable clothing",
             rain_gear |-> has_rain]

\* a WeatherTool exists and _run has been called
InitWeather ==
    /\ NoAgentIn(StandaloneWorld)
    /\ args \in WeatherCalls
    /\ outside \in Services
    /\ tpc = "coordinates"
    /\ flights_data = Unset /\ fetched = <<>> /\ locals = NoneV /\ ret = NoneV
    /\ cache = <<>>

\* _run: coords = self._get_coordinates(city), and the return without them
GetCoordinates ==
    /\ tpc = "coordinates"
    /\ LET coords == get_coordinates(args.city)
       IN IF coords = NoneV
          THEN /\ ret' = [head |-> "City not found in database",
                          city |-> args.city, available |-> AvailableCities]
               /\ tpc' = "done"
               /\ UNCHANGED locals
          ELSE /\ locals' = [coords |-> coords]
               /\ tpc' = "fetch"
               /\ UNCHANGED ret
    /\ UNCHANGED <<agentvars, flights_data, args, outside, fetched, cache>>

\* _run: weather_data = self._fetch_weather_data(lat, lon, days), which is
\* None after a RequestException, and the return without data
FetchWeatherData ==
    /\ tpc = "fetch"
    /\ LET params == [url |-> "https://api.open-meteo.com/v1/forecast",
                      latitude |-> locals.coords.lat,
                      longitude |-> locals.coords.lon,
                      forecast_days |-> ForecastDays(args.days)]
           response == Respond(outside, params)
       IN /\ fetched' = Append(fetched, params)
          /\ IF response.kind = "raise"
             THEN /\ ret' = [head |-> "Failed to fetch weather data for",
                             city |-> locals.coords.name]
                  /\ tpc' = "done"
                  /\ UNCHANGED locals
             ELSE /\ locals' = [coords |-> locals.coords,
                                weather_data |-> response.value]
                  /\ tpc' = "format"
                  /\ UNCHANGED ret
    /\ UNCHANGED <<agentvars, flights_data, args, outside, cache>>

\* _run: return self._format_weather_output(coords["name"], weather_data, days)
FormatWeatherOutput ==
    /\ tpc = "format"
    /\ ret' = format_weather_output(locals.coords.name, locals.weather_data, args.days)
    /\ tpc' = "done"
    /\ UNCHANGED <<agentvars, flights_data, args, outside, fetched, locals, cache>>

NextWeather ==
    \/ GetCoordinates
    \/ FetchWeatherData
    \/ FormatWeatherOutput

\* one call of WeatherTool._run, over the calls and the services
SpecWeather == InitWeather /\ [][NextWeather]_vars

(***************************************************************************)
(* JSON.  A JSON text is the sequence of its tokens: [p |-> "{"] and the   *)
(* other punctuation and the literal null, [n |-> 5] a number, [s |-> "x"] *)
(* a string, [w |-> "x"] any other run of characters.  A Python value is   *)
(* [n |-> 5], [s |-> "x"], [null |-> TRUE], [list |-> <<v, ...>>] or       *)
(* [dict |-> <<[k |-> key, v |-> value], ...>>] with its keys in insertion *)
(* order.  A rating is a number of tenths.                                 *)
(***************************************************************************)
\* d[k] = v
dict_set(pairs, k, v) ==
    IF \E i \in 1..Len(pairs) : pairs[i].k = k
    THEN [i \in 1..Len(pairs) |-> IF pairs[i].k = k THEN [k |-> k, v |-> v] ELSE pairs[i]]
    ELSE Append(pairs, [k |-> k, v |-> v])

\* d.get(k, default)
dict_get(d, k, default) ==
    LET hits == SelectSeq(d.dict, LAMBDA e : e.k = k)
    IN IF hits = <<>> THEN default ELSE hits[1].v

RECURSIVE parse_value(_), parse_elements(_, _), parse_members(_, _)
\* the JSON decoder at a value: the value and the tokens behind it
parse_value(toks) ==
    IF toks = <<>> THEN [ok |-> FALSE]
    ELSE LET t == Head(toks)
             r == Tail(toks)
             Is(c) == "p" \in DOMAIN t /\ t.p = c
             Closes(c) == r # <<>> /\ "p" \in DOMAIN Head(r) /\ Head(r).p = c
         IN IF "n" \in DOMAIN t THEN [ok |-> TRUE, v |-> [n |-> t.n], rest |-> r]
            ELSE IF "s" \in DOMAIN t THEN [ok |-> TRUE, v |-> [s |-> t.s], rest |-> r]
            ELSE IF Is("null") THEN [ok |-> TRUE, v |-> [null |-> TRUE], rest |-> r]
            ELSE IF Is("[")
            THEN IF Closes("]") THEN [ok |-> TRUE, v |-> [list |-> <<>>], rest |-> Tail(r)]
                 ELSE parse_elements(<<>>, r)
            ELSE IF Is("{")
            THEN IF Closes("}") THEN [ok |-> TRUE, v |-> [dict |-> <<>>], rest |-> Tail(r)]
                 ELSE parse_members(<<>>, r)
            ELSE [ok |-> FALSE]

\* the decoder inside an array, at an element
parse_elements(items, toks) ==
    LET e == parse_value(toks)
    IN IF ~e.ok \/ e.rest = <<>> \/ "p" \notin DOMAIN Head(e.rest) THEN [ok |-> FALSE]
       ELSE IF Head(e.rest).p = ","
       THEN parse_elements(Append(items, e.v), Tail(e.rest))
       ELSE IF Head(e.rest).p = "]"
       THEN [ok |-> TRUE, v |-> [list |-> Append(items, e.v)], rest |-> Tail(e.rest)]
       ELSE [ok |-> FALSE]

\* the decoder inside an object, at a key
parse_members(pairs, toks) ==
    IF \/ Len(toks) < 2
       \/ "s" \notin DOMAIN toks[1]
       \/ "p" \notin DOMAIN toks[2]
       \/ toks[2].p # ":"
    THEN [ok |-> FALSE]
    ELSE LET e == parse_value(SubSeq(toks, 3, Len(toks)))
         IN IF ~e.ok \/ e.rest = <<>> \/ "p" \notin DOMAIN Head(e.rest) THEN [ok |-> FALSE]
            ELSE IF Head(e.rest).p = ","
            THEN parse_members(dict_set(pairs, toks[1].s, e.v), Tail(e.rest))
            ELSE IF Head(e.rest).p = "}"
            THEN [ok |-> TRUE, v |-> [dict |-> dict_set(pairs, toks[1].s, e.v)],
                  rest |-> Tail(e.rest)]
            ELSE [ok |-> FALSE]

\* json.loads: the value of the whole text, or JSONDecodeError
json_loads(text) ==
    LET r == parse_value(text)
    IN IF r.ok /\ r.rest = <<>> THEN Returned(r.v) ELSE Raised("JSONDecodeError")

RECURSIVE json_dumps(_), dumps_joined(_)
\* json.dumps
json_dumps(v) ==
    IF "list" \in DOMAIN v
    THEN <<[p |-> "["]>> \o dumps_joined([i \in 1..Len(v.list) |-> json_dumps(v.list[i])])
           \o <<[p |-> "]"]>>
    ELSE IF "dict" \in DOMAIN v
    THEN <<[p |-> "{"]>>
           \o dumps_joined([i \in 1..Len(v.dict) |->
                              <<[s |-> v.dict[i].k], [p |-> ":"]>> \o json_dumps(v.dict[i].v)])
           \o <<[p |-> "}"]>>
    ELSE IF "null" \in DOMAIN v THEN <<[p |-> "null"]>>
    ELSE <<v>>

\* ", ".join of the texts of the parts
dumps_joined(parts) ==
    IF parts = <<>> THEN <<>>
    ELSE IF Len(parts) = 1 THEN parts[1]
    ELSE parts[1] \o <<[p |-> ","]>> \o dumps_joined(Tail(parts))

(***************************************************************************)
(* HybridTravelAgent: the five tool functions                              *)
(***************************************************************************)
\* {k1: v1, ...} as written in the code
Dict(pairs) == [dict |-> [i \in 1..Len(pairs) |-> [k |-> pairs[i][1], v |-> pairs[i][2]]]]

\* the except branch every tool function has
ToolError == json_dumps(Dict(<< <<"status", [s |-> "error"]>> >>))

\* _flight_search
flight_search(input_str) ==
    IF json_loads(input_str).kind = "raise" THEN ToolError
    ELSE json_dumps(Dict(<<
           <<"status", [s |-> "success"]>>,
           <<"flights", [list |-> << Dict(<<
               <<"airline", [s |-> "IndiGo"]>>,
               <<"price", [n |-> 4800]>>,
               <<"departure", [s |-> "14:00"]>>,
               <<"duration", [s |-> "2h 30m"]>> >>) >>]>> >>))

\* _hotel_search
hotel_search(input_str) ==
    json_dumps(Dict(<<
      <<"status", [s |-> "success"]>>,
      <<"hotels", [list |-> << Dict(<<
          <<"name", [s |-> "Sea View Resort"]>>,
          <<"rating", [n |-> 45]>>,
          <<"price_per_night", [n |-> 3200]>>,
          <<"amenities", [list |-> <<[s |-> "Pool"], [s |-> "WiFi"]>>]>> >>) >>]>> >>))

\* _weather_lookup
weather_lookup(input_str) ==
    json_dumps(Dict(<<
      <<"forecast", [list |-> <<
          Dict(<< <<"day", [n |-> 1]>>, <<"condition", [s |-> "Sunny"]>>,
                  <<"temp", [n |-> 31]>> >>),
          Dict(<< <<"day", [n |-> 2]>>, <<"condition", [s |-> "Clear"]>>,
                  <<"temp", [n |-> 30]>> >>) >>]>> >>))

\* _places_search
places_search(input_str) ==
    json_dumps(Dict(<<
      <<"places", [list |-> <<
          Dict(<< <<"name", [s |-> "Baga Beach"]>>, <<"type", [s |-> "Beach"]>>,
                  <<"rating", [n |-> 46]>> >>),
          Dict(<< <<"name", [s |-> "Fort Aguada"]>>, <<"type", [s |-> "Heritage"]>>,
                  <<"rating", [n |-> 45]>> >>) >>]>> >>))

\* the "breakdown" of _budget_calculator
budget_breakdown_flat_daily(flight, hotel, nights, daily) ==
    Dict(<< <<"flight", [n |-> flight]>>,
            <<"hotel", [n |-> hotel * nights]>>,
            <<"daily", [n |-> daily]>>,
            <<"total", [n |-> flight + (hotel * nights) + daily]>> >>)
budget_breakdown(flight, hotel, nights, daily) ==
    Dict(<< <<"flight", [n |-> flight]>>,
            <<"hotel", [n |-> hotel * nights]>>,
            <<"daily", [n |-> daily * nights]>>,
            <<"total", [n |-> flight + (hotel * nights) + (daily * nights)]>> >>)

\* _budget_calculator.  params.get fails on a value that is no dict, and the
\* arithmetic fails on a null among the four values: both end in the except
\* branch (the values the model passes are numbers or null)
budget_calculator(input_str) ==
    LET params == json_loads(input_str)
    IN IF params.kind = "raise" \/ "dict" \notin DOMAIN params.value THEN ToolError
       ELSE LET flight == dict_get(params.value, "flight_price", [n |-> 4800])
                hotel == dict_get(params.value, "hotel_price", [n |-> 3200])
                nights == dict_get(params.value, "nights", [n |-> 3])
                daily == dict_get(params.value, "daily_expense", [n |-> 800])
            IN IF \E x \in {flight, hotel, nights, daily} : "n" \notin DOMAIN x
               THEN ToolError
               ELSE json_dumps(Dict(<<
                      <<"breakdown", budget_breakdown(flight.n, hotel.n, nights.n, daily.n)>> >>))

\* the texts the engine hands to a tool: objects with any of the budget
\* keys, each a number or null; hotel queries; values that are no object;
\* and texts that are no JSON
ToolInputs ==
    LET Choice(k, vs) == {<<>>} \cup { << <<k, v>> >> : v \in vs }
        Budgets == { json_dumps(Dict(f \o h \o n \o d)) :
                       f \in Choice("flight_price", {[n |-> 5200], [null |-> TRUE]}),
                       h \in Choice("hotel_price", {[n |-> 2500], [null |-> TRUE]}),
                       n \in Choice("nights", {[n |-> 0], [n |-> 2], [null |-> TRUE]}),
                       d \in Choice("daily_expense", {[n |-> 1000], [null |-> TRUE]}) }
        Hotels == { json_dumps(Dict(<< <<"city", [s |-> "Goa"]>> >> \o r \o m)) :
                       r \in Choice("min_rating", {[n |-> 40], [n |-> 48]}),
                       m \in Choice("max_price", {[n |-> 3000], [n |-> 4000]}) }
        Others == { <<[n |-> 5]>>, <<[s |-> "Goa"]>>, <<[p |-> "null"]>>,
                    <<[p |-> "["], [p |-> "]"]>>,
                    <<[p |-> "["], [n |-> 1], [p |-> ","], [n |-> 2], [p |-> "]"]>> }
        Broken == { <<>>,
                    <<[w |-> "Goa"]>>,
                    <<[p |-> "{"], [s |-> "city"], [p |-> ":"], [s |-> "Goa"]>>,
                    <<[p |-> "{"], [s |-> "city"], [s |-> "Goa"], [p |-> "}"]>>,
                    <<[p |-> "{"], [s |-> "nights"], [p |-> ":"], [n |-> 2], [p |-> ","],
                      [p |-> "}"]>>,
                    <<[p |-> "{"], [w |-> "nights"], [p |-> ":"], [n |-> 2], [p |-> "}"]>>,
                    <<[p |-> "["], [n |-> 1], [n |-> 2], [p |-> "]"]>>,
                    <<[p |-> "{"], [p |-> "}"], [p |-> "}"]>> }
    IN Budgets \cup Hotels \cup Others \cup Broken

\* the engine has chosen a tool and its input.  The tool functions read no
\* field of the instance
InitTools ==
    /\ NoAgentIn(StandaloneWorld)
    /\ args \in [tool : {ToolNames[i] : i \in 1..Len(ToolNames)}, input : ToolInputs]
    /\ tpc = "call"
    /\ flights_data = Unset /\ outside = NoneV /\ fetched = <<>> /\ locals = NoneV
    /\ ret = NoneV /\ cache = <<>>

\* Tool.func(input) returns
ToolReturns(text) ==
    /\ ret' = text
    /\ tpc' = "done"
    /\ UNCHANGED <<agentvars, flights_data, args, outside, fetched, locals, cache>>

FlightSearchCall ==
    /\ tpc = "call" /\ args.tool = "flight_search"
    /\ ToolReturns(flight_search(args.input))

HotelSearchCall ==
    /\ tpc = "call" /\ args.tool = "hotel_search"
    /\ ToolReturns(hotel_search(args.input))

WeatherLookupCall ==
    /\ tpc = "call" /\ args.tool = "weather_lookup"
    /\ ToolReturns(weather_lookup(args.input))

PlacesSearchCall ==
    /\ tpc = "call" /\ args.tool = "places_search"
    /\ ToolReturns(places_search(args.input))

BudgetCalculatorCall ==
    /\ tpc = "call" /\ args.tool = "budget_calculator"
    /\ ToolReturns(budget_calculator(args.input))

NextTools ==
    \/ FlightSearchCall
    \/ HotelSearchCall
    \/ WeatherLookupCall
    \/ PlacesSearchCall
    \/ BudgetCalculatorCall

\* one call of a tool function, over the tools and the input texts
SpecTools == InitTools /\ [][NextTools]_vars

(***************************************************************************)
(* DataLoader (src/src/utils/data_loader.py)                               *)
(***************************************************************************)
\* the keys load_json looks for in an object, in the order it tries them
CommonKeysDataFirst == <<"data", "flights", "hotels", "places">>
CommonKeys == <<"flights", "hotels", "places", "data">>

\* the capacity of the cache of load_json
maxsize == 10

\* the body of load_json: the normalised content of the file, or the
\* exception raised with the text it carries (the decoder's own words at
\* the end of the second text are left out).  files is the data directory:
\* <<[name, text], ...>>; data_path is the default "data/"
load_json(files, filename) ==
    LET filepath == [data_path |-> "data/", filename |-> filename]
        found == SelectSeq(files, LAMBDA f : f.name = filename)
        data == json_loads(found[1].text)
        keys == SelectSeq(CommonKeys,
                          LAMBDA k : \E i \in 1..Len(data.value.dict) :
                                        data.value.dict[i].k = k)
    IN IF found = <<>>
       THEN Raised([type |-> "FileNotFoundError",
                    head |-> "Data file not found: ", filepath |-> filepath])
       ELSE IF data.kind = "raise"
       THEN Raised([type |-> "ValueError",
                    head |-> "Invalid JSON in ", filepath |-> filepath])
       ELSE IF "list" \in DOMAIN data.value THEN Returned(data.value)
       ELSE IF "dict" \in DOMAIN data.value
       THEN IF keys # <<>>
            THEN Returned(dict_get(data.value, keys[1], [null |-> TRUE]))
            ELSE Returned([list |-> <<data.value>>])
       ELSE Returned([list |-> <<>>])

\* the texts a data file of the model holds: arrays of records; objects
\* with any of the keys flights, hotels, places, data and meta, written in
\* two orders; objects whose value is no array; scalars; texts that are no
\* JSON
FileTexts ==
    LET Rec(i) == Dict(<< <<"id", [n |-> i]>> >>)
        Member(k) ==
            CASE k = "flights" -> <<k, [list |-> <<Rec(1), Rec(2)>>]>>
              [] k = "hotels" -> <<k, [list |-> <<Rec(3)>>]>>
              [] k = "places" -> <<k, [list |-> <<Rec(4)>>]>>
              [] k = "data" -> <<k, [list |-> <<Rec(5)>>]>>
              [] OTHER -> <<k, [s |-> "v1"]>>
        Written == <<"meta", "data", "places", "hotels", "flights">>
        Reverse(s) == [i \in 1..Len(s) |-> s[Len(s) + 1 - i]]
        Objects == UNION { { Dict([i \in 1..Len(ks) |-> Member(ks[i])]) :
                               ks \in { SelectSeq(Written, LAMBDA k : k \in K),
                                        Reverse(SelectSeq(Written, LAMBDA k : k \in K)) } }
                           : K \in SUBSET {"meta", "data", "places", "hotels", "flights"} }
        Arrays == { [list |-> <<>>], [list |-> <<Rec(1)>>], [list |-> <<Rec(1), Rec(2)>>] }
        Odd == { Dict(<< <<"flights", [n |-> 5]>> >>),
                 Dict(<< <<"meta", [s |-> "v1"]>>, <<"data", [null |-> TRUE]>> >>),
                 [n |-> 5], [s |-> "flights"], [null |-> TRUE] }
        Broken == { <<>>,
                    <<[p |-> "["], [n |-> 1], [n |-> 2], [p |-> "]"]>>,
                    <<[p |-> "{"], [s |-> "flights"], [p |-> ":"], [p |-> "["]>>,
                    <<[w |-> "flights"]>> }
    IN { json_dumps(v) : v \in Objects \cup Arrays \cup Odd } \cup Broken

\* a DataLoader exists; its directory holds one of the three files, or none
InitLoader ==
    /\ NoAgentIn(StandaloneWorld)
    /\ outside \in {<<>>}
                    \cup { <<[name |-> n, text |-> t]>> :
                             n \in {"flights.json", "hotels.json", "places.json"},
                             t \in FileTexts }
    /\ tpc = "loader"
    /\ cache = <<>>
    /\ args = NoneV /\ ret = NoneV
    /\ flights_data = Unset /\ fetched = <<>> /\ locals = NoneV

\* lru_cache at a call whose key is cached: the entry becomes the most
\* recently used one (the last of entries)
lru_hit_unmoved(entries, filename) == entries
lru_hit(entries, filename) ==
    LET at == CHOOSE i \in 1..Len(entries) : entries[i].k = filename
    IN Append(SelectSeq(entries, LAMBDA e : e.k # filename), entries[at])

\* lru_cache at a call whose key is not cached and whose body ended as r: a
\* result returned is stored as the most recently used entry, in place of
\* the least recently used one when maxsize entries are held; an exception
\* passes through and nothing is stored
lru_miss_keeping_failures(entries, filename, r) ==
    Append(IF Len(entries) >= maxsize THEN Tail(entries) ELSE entries,
           [k |-> filename, v |-> IF r.kind = "return" THEN r.value ELSE [list |-> <<>>]])
lru_miss(entries, filename, r) ==
    IF r.kind = "return"
    THEN Append(IF Len(entries) >= maxsize THEN Tail(entries) ELSE entries,
                [k |-> filename, v |-> r.value])
    ELSE entries

\* self.load_json(filename) through lru_cache: a result cached for the name
\* is returned as it is and no file is opened; otherwise the body runs
cached_load_json(filename) ==
    /\ tpc = "loader"
    /\ args' = [filename |-> filename]
    /\ IF \E i \in 1..Len(cache) : cache[i].k = filename
       THEN /\ ret' = Returned(dict_get([dict |-> cache], filename, NoneV))
            /\ cache' = lru_hit(cache, filename)
            /\ fetched' = <<>>
       ELSE LET r == load_json(outside, filename)
            IN /\ ret' = r
               /\ cache' = lru_miss(cache, filename, r)
               /\ fetched' = <<filename>>
    /\ UNCHANGED <<agentvars, tpc, flights_data, outside>>

load_flights ==
    /\ tpc = "loader"
    /\ cached_load_json("flights.json")
    /\ UNCHANGED locals

load_hotels ==
    /\ tpc = "loader"
    /\ cached_load_json("hotels.json")
    /\ UNCHANGED locals

load_places ==
    /\ tpc = "loader"
    /\ cached_load_json("places.json")
    /\ UNCHANGED locals

clear_cache ==
    /\ tpc = "loader"
    /\ cache' = <<>>
    /\ UNCHANGED <<agentvars, tpc, flights_data, args, outside, fetched, locals, ret>>

NextLoader ==
    \/ load_flights
    \/ load_hotels
    \/ load_places
    \/ clear_cache

\* a DataLoader in use, over the contents of its directory
SpecLoader == InitLoader /\ [][NextLoader]_vars

\* the further files of the data directory a caller of load_json reads
MaxExtras == 9

\* the directories of the model.  flights.json is missing, holds an array,
\* holds an object with the array under "flights", or holds broken JSON;
\* hotels.json is missing or holds an array; MaxExtras further files stay
\* as they are
Directories ==
    LET Rec(i) == Dict(<< <<"id", [n |-> i]>> >>)
        Held == { <<>>,
                  <<json_dumps([list |-> <<Rec(1)>>])>>,
                  <<json_dumps(Dict(<< <<"flights", [list |-> <<Rec(1), Rec(2)>>]>> >>))>>,
                  << <<[p |-> "["], [n |-> 1]>> >> }
        File(n, held) == [i \in 1..Len(held) |-> [name |-> n, text |-> held[i]]]
        Extra(i) == [name |-> "extra-" \o ToString(i) \o ".json",
                     text |-> json_dumps([list |-> <<Rec(i)>>])]
    IN { File("flights.json", f) \o File("hotels.json", h)
           \o [i \in 1..MaxExtras |-> Extra(i)] :
         f \in Held, h \in {<<>>, <<json_dumps([list |-> <<Rec(3)>>])>>} }

\* a DataLoader exists over one of the directories; its caller has read
\* none of the further files yet
InitCache ==
    /\ NoAgentIn(StandaloneWorld)
    /\ outside \in Directories
    /\ tpc = "loader"
    /\ cache = <<>>
    /\ args = NoneV /\ ret = NoneV
    /\ flights_data = Unset /\ fetched = <<>> /\ locals = [scanned |-> 0]

\* a caller that goes through the further files calls load_json on the next
\* of them
load_next ==
    /\ tpc = "loader"
    /\ locals.scanned < MaxExtras
    /\ cached_load_json("extra-" \o ToString(locals.scanned + 1) \o ".json")
    /\ locals' = [scanned |-> locals.scanned + 1]

\* somebody writes, repairs or removes one of the dataset files
FileChanges ==
    /\ tpc = "loader"
    /\ \E d \in Directories :
          /\ d # outside
          /\ \E n \in {"flights.json", "hotels.json"} :
                SelectSeq(d, LAMBDA f : f.name # n)
                  = SelectSeq(outside, LAMBDA f : f.name # n)
          /\ outside' = d
    /\ UNCHANGED <<agentvars, tpc, flights_data, args, fetched, locals, ret, cache>>

NextCache ==
    \/ load_flights
    \/ load_hotels
    \/ load_next
    \/ clear_cache
    \/ FileChanges

\* a DataLoader in use while the dataset files change
SpecCache == InitCache /\ [][NextCache]_vars

(***************************************************************************)
(* Formatters (src/src/utils/formatters.py).  An amount of money is        *)
(* counted in halves of a unit, so that 9601 stands for 4800.5: these are  *)
(* numbers a float holds exactly.  A formatted amount is the sequence of   *)
(* its characters; "Rs" stands for the rupee sign U+20B9.  A text is the   *)
(* sequence of its lines, and a line is a record of its fixed parts and    *)
(* of the values put between them; the pictograph that opens a section     *)
(* heading is left out.                                                    *)
(***************************************************************************)
\* the days of forecast and of plan an itinerary of the model holds
MaxPlanDays == 2

\* the nearest whole number to amount / 2, a tie going to the even one:
\* what the format specification .0f makes of a float
round_half_up(amount) == (amount + 1) \div 2
round_half_even(amount) ==
    LET floor == amount \div 2
    IN IF amount % 2 = 0 THEN floor
       ELSE IF floor % 2 = 0 THEN floor ELSE floor + 1

\* format_currency(amount, currency)
format_currency(amount, currency) ==
    LET RECURSIVE digits(_)
        digits(n) ==
            LET d == <<"0", "1", "2", "3", "4", "5", "6", "7", "8", "9">>[(n % 10) + 1]
            IN IF n < 10 THEN <<d>> ELSE Append(digits(n \div 10), d)
        RECURSIVE grouped(_)
        \* the thousands separator of the format specification ","
        grouped(ds) ==
            IF Len(ds) <= 3 THEN ds
            ELSE grouped(SubSeq(ds, 1, Len(ds) - 3))
                   \o <<",">> \o SubSeq(ds, Len(ds) - 2, Len(ds))
        two_places == grouped(digits(amount \div 2))
                        \o (IF amount % 2 = 0 THEN <<".", "0", "0">> ELSE <<".", "5", "0">>)
    IN IF currency = "INR" THEN <<"Rs">> \o grouped(digits(round_half_even(amount)))
       ELSE IF currency = "USD" THEN <<"$">> \o two_places
       ELSE two_places \o <<" ", currency>>

\* format_itinerary_text(itinerary): the lines of the text returned
format_itinerary_text(itinerary) ==
    LET RECURSIVE joined(_)
        joined(parts) == IF parts = <<>> THEN <<>> ELSE Head(parts) \o joined(Tail(parts))
        rule(c) == [rule |-> c, times |-> 70]
        blank == [text |-> ""]
        flight == itinerary.flight
        hotel == itinerary.hotel
        budget == itinerary.budget
        activity_lines(a) ==
            << [head |-> "  ", name |-> a.name, type |-> a.type, rating |-> a.rating],
               [head |-> "     ", description |-> a.description] >>
        day_lines(day) ==
            << blank, [head |-> "Day ", day |-> day.day, title |-> day.title] >>
              \o joined([i \in 1..Len(day.activities) |-> activity_lines(day.activities[i])])
        weather_line(w) ==
            [head |-> "Day ", day |-> w.day, date |-> w.date,
             condition |-> w.condition, temp_high |-> w.temp_high]
    IN << rule("="),
          [head |-> "YOUR ", num_days |-> itinerary.num_days,
           mid |-> "-DAY TRIP TO ", destination |-> upper(itinerary.destination)],
          [start_date |-> itinerary.start_date, mid |-> " to ",
           end_date |-> itinerary.end_date],
          rule("="),
          blank,
          [text |-> "FLIGHT SELECTED"],
          rule("-"),
          [head |-> "Airline: ", airline |-> flight.airline, flight_id |-> flight.flight_id],
          [head |-> "Price: ", amount |-> format_currency(flight.price, "INR")],
          [head |-> "Departure: ", departure |-> flight.departure,
           mid |-> " | Arrival: ", arrival |-> flight.arrival],
          [head |-> "Duration: ", duration |-> flight.duration],
          blank,
          [text |-> "HOTEL BOOKED"],
          rule("-"),
          [head |-> "Hotel: ", name |-> hotel.name],
          [head |-> "Rating: ", rating |-> hotel.rating, tail |-> "/5"],
          [head |-> "Price: ", amount |-> format_currency(hotel.price_per_night, "INR"),
           tail |-> "/night"],
          [head |-> "Amenities: ", amenities |-> hotel.amenities, sep |-> ", "],
          blank,
          [text |-> "WEATHER FORECAST"],
          rule("-") >>
       \o [i \in 1..Len(itinerary.weather) |-> weather_line(itinerary.weather[i])]
       \o << blank,
             [text |-> "DAY-WISE ITINERARY"],
             rule("-") >>
       \o joined([i \in 1..Len(itinerary.daily_itinerary) |->
                    day_lines(itinerary.daily_itinerary[i])])
       \o << blank,
             [text |-> "BUDGET BREAKDOWN"],
             rule("-"),
             [head |-> "Flight:              ", amount |-> format_currency(budget.flight, "INR")],
             [head |-> "Hotel:               ", amount |-> format_currency(budget.hotel, "INR")],
             [head |-> "Food & Travel:       ",
              amount |-> format_currency(budget.food_and_travel, "INR")],
             [head |-> "Activities:          ",
              amount |-> format_currency(budget.activities, "INR")],
             rule("-"),
             [head |-> "TOTAL COST:          ", amount |-> format_currency(budget.total, "INR")],
             rule("=") >>

\* the itineraries of the model: trips to Goa of up to MaxPlanDays days,
\* with whole and fractional costs below and above the thousands
Itineraries ==
    LET Place(i) == [name |-> <<"Beach", "Fort">>[i], type |-> "sight",
                     rating |-> 45, description |-> "BUDGET BREAKDOWN"]
        Weather(i) == [day |-> i, date |-> <<2025, 1, 9 + i>>,
                       condition |-> "Clear sky", temp_high |-> 30]
        Day(i) == [day |-> i, title |-> "Explore",
                   activities |-> [j \in 1..i |-> Place(j)]]
        Costs == [flight : {2 * 999, 2 * 4800, 2 * 1234567},
                  hotel : {0, 1, 3, 5, 2 * 1000, 2 * 9600 + 1},
                  food_and_travel : {2 * 2400, 2 * 1999 + 1},
                  activities : {0, 2 * 500}]
    IN { [num_days |-> n, destination |-> "Goa",
          start_date |-> <<2025, 1, 10>>, end_date |-> <<2025, 1, 10 + n>>,
          flight |-> [airline |-> "IndiGo", flight_id |-> "F-1", price |-> c.flight,
                      departure |-> "06:00", arrival |-> "08:30", duration |-> "2h 30m"],
          hotel |-> [name |-> "Sea View", rating |-> 45, price_per_night |-> 2 * 3200,
                     amenities |-> <<"wifi", "pool">>],
          weather |-> [i \in 1..n |-> Weather(i)],
          daily_itinerary |-> [i \in 1..n |-> Day(i)],
          budget |-> [flight |-> c.flight, hotel |-> c.hotel,
                      food_and_travel |-> c.food_and_travel,
                      activities |-> c.activities,
                      total |-> c.flight + c.hotel + c.food_and_travel + c.activities]] :
         n \in 0..MaxPlanDays, c \in Costs }

\* a caller holds an itinerary to render
InitFormat ==
    /\ NoAgentIn(StandaloneWorld)
    /\ tpc = "render"
    /\ args \in { [itinerary |-> it] : it \in Itineraries }
    /\ ret = NoneV
    /\ flights_data = Unset /\ outside = NoneV /\ fetched = <<>> /\ locals = NoneV
    /\ cache = <<>>

FormatItineraryText ==
    /\ tpc = "render"
    /\ ret' = Returned(format_itinerary_text(args.itinerary))
    /\ tpc' = "rendered"
    /\ UNCHANGED <<agentvars, flights_data, args, outside, fetched, locals, cache>>

NextFormat == FormatItineraryText

\* one rendering of an itinerary
SpecFormat == InitFormat /\ [][NextFormat]_vars

(***************************************************************************)
(* Properties                                                              *)
(***************************************************************************)
\* a plan_trip call has finished and returned a dict
Finished == calls >= 1 /\ pc = "ready" /\ outcome.kind \in {"return", "raise"}
DemoDone == Finished /\ provider = "demo"
AiDone == Finished /\ provider \in {"ollama", "gemini"}

\* the request's dates are well formed, end strictly after start
GoodTrip(req) ==
    /\ req.start_date \in ValidDates /\ req.end_date \in ValidDates
    /\ ToOrdinal(req.end_date) > ToOrdinal(req.start_date)

\* end - start, in days
Nights(req) == ToOrdinal(req.end_date) - ToOrdinal(req.start_date)

DemoSuccessWith(n) ==
    /\ outcome.kind = "return"
    /\ outcome.value.status = "success"
    /\ outcome.value.provider = "demo"
    /\ Len(outcome.value.itinerary.day_lines) >= 1
    /\ outcome.value.itinerary.budget.total = 4800 + (3200 * n) + (800 * n)
    /\ outcome.value.itinerary.budget.flight = 4800
    /\ outcome.value.itinerary.budget.hotel = 3200 * n
    /\ outcome.value.itinerary.budget.food = 800 * n

\* C1 as stated: in demo mode every trip with well-formed dates and end after
\* start succeeds with total = 4800 + 3200 x nights + 800 x nights, where
\* nights = end - start in days
C1_AsStated == (DemoDone /\ GoodTrip(request)) => DemoSuccessWith(Nights(request))

\* C1: in demo mode every trip with well-formed dates and end after start
\* succeeds with a non-empty itinerary whose total is
\* 4800 + 3200 x days + 800 x days, where days = (end - start) + 1, the
\* number of calendar days from start to end inclusive
C1_DemoBudget == (DemoDone /\ GoodTrip(request)) => DemoSuccessWith(Nights(request) + 1)

C1_Witness ==
    /\ DemoDone /\ GoodTrip(request)
    /\ request.start_date = <<2024, 2, 27>> /\ request.end_date = <<2024, 3, 1>>
    /\ outcome.value.itinerary.budget.total = 20800

\* no local service and no credential
NoEngine(w) == w.ollama.net = "refused" /\ w.gemini.key = NoneV

\* C2: Delhi to Goa, 2024-03-01 to 2024-03-04, no engine available: demo
\* mode, a 4-day trip, total 20800
C2_SampleTrip ==
    /\ (pc = "ready" /\ NoEngine(env)) => provider = "demo"
    /\ (Finished /\ NoEngine(env) /\ request = SampleTrip) =>
          /\ outcome.kind = "return"
          /\ outcome.value.status = "success"
          /\ outcome.value.provider = "demo"
          /\ outcome.value.itinerary.title_days = 4
          /\ Len(outcome.value.itinerary.day_lines) = 4
          /\ outcome.value.itinerary.budget.total = 20800

C2_Witness ==
    /\ Finished /\ NoEngine(env) /\ driver = "script" /\ request = SampleTrip
    /\ ui.kind = "itinerary" /\ ui.body.budget.total = 20800

\* C3: whatever the mode and the input, plan_trip ends by returning a result
\* with status success or error; no exception escapes it
C3_PlanTripNeverRaises ==
    /\ outcome.kind # "raise"
    /\ outcome.kind = "return" => outcome.value.status \in {"success", "error"}

\* the probe is answered with status 200 and a list of at least one model
LocalReachableWithModel(w) ==
    /\ w.requests /\ w.net = "response" /\ w.status = 200 /\ w.body.valid
    /\ "models" \in DOMAIN w.body /\ Len(w.body.models) >= 1

\* the local step can build its handle: the service answers 200 with a first
\* model that has a name, both libraries import and Ollama(...) constructs
LocalHandle(w) ==
    /\ LocalReachableWithModel(w)
    /\ w.community /\ w.ctor
    /\ "name" \in DOMAIN w.body.models[1]

CloudHandle(w) == w.key # NoneV /\ w.key.value # "" /\ w.genai /\ w.ctor

DetectionDone == provider # "unset"

\* C4 as stated: whenever the local service is reachable with at least one
\* model the provider tag is the local one
C4_AsStated == (DetectionDone /\ LocalReachableWithModel(env.ollama)) => provider = "ollama"

\* C4: whenever the local step yields a handle the provider tag is the local
\* one, whatever the cloud credential; the cloud tag is returned only after
\* the local step was tried and yielded no handle, and the demo tag only
\* after both were
C4_Priority ==
    DetectionDone =>
      /\ LocalHandle(env.ollama) => (provider = "ollama" /\ tries.gemini = 0)
      /\ provider = "gemini" =>
            (~LocalHandle(env.ollama) /\ tries.ollama = 1 /\ CloudHandle(env.gemini))
      /\ provider = "demo" => (tries.ollama = 1 /\ tries.gemini = 1)

C4_Witness ==
    /\ pc = "ready" /\ provider = "ollama"
    /\ LocalHandle(env.ollama) /\ CloudHandle(env.gemini)

\* C5: each detection step is attempted at most once, the local one first; no
\* error leaves detection (the constructor goes on to its next step); and
\* detection ends with a live handle and its tag, or with (None, "demo")
C5_FailOpen ==
    /\ tries.ollama <= 1 /\ tries.gemini <= 1 /\ tries.gemini <= tries.ollama
    /\ pc \in {"try_ollama", "try_gemini", "init_tools"} => outcome = NoOutcome
    /\ pc = "try_gemini" => (tries.ollama = 1 /\ ~DetectionDone)
    /\ pc \in {"init_tools", "create_agent", "ready"} =>
          /\ DetectionDone /\ tries.ollama = 1
          /\ \/ llm = NoneV /\ provider = "demo"
             \/ llm.kind = "Ollama" /\ provider = "ollama"
             \/ llm.kind = "ChatGoogleGenerativeAI" /\ provider = "gemini"

C5_Witness ==
    /\ pc = "init_tools" /\ llm = NoneV /\ provider = "demo"
    /\ env.ollama.net = "timeout" /\ env.gemini.key # NoneV /\ ~env.gemini.ctor
    /\ tries = [ollama |-> 1, gemini |-> 1]

\* C6: on one instance, from the end of construction on, no step of any
\* plan_trip call changes the engine handle, the provider tag or the agent,
\* or probes again; and every call takes the branch of the provider tag: the
\* engine is invoked in AI mode only, a result made without it is a demo result
C6_ModeFixed ==
    /\ [][(pc \in {"ready", "invoke"} /\ pc' \in {"ready", "invoke"}) =>
            UNCHANGED <<llm, provider, agent, tries, log>>]_vars
    /\ [](pc = "invoke" => provider \in {"ollama", "gemini"})
    /\ []((Finished /\ invoked.kind # "none") => provider \in {"ollama", "gemini"})
    /\ []((Finished /\ invoked.kind = "none" /\ outcome.kind = "return") =>
            (provider = "demo" /\ outcome.value.provider = "demo"))

C6_Witness ==
    /\ pc = "ready" /\ calls = 2 /\ provider = "gemini"
    /\ outcome.kind = "return" /\ outcome.value.status = "error"

\* C7: in AI mode, a failed invoke gives status error, the provider tag, the
\* error's own message and no itinerary, and the instance stays ready with
\* its agent; a successful invoke gives status success with the engine's
\* output as the itinerary
C7_InvokeResult ==
    (AiDone /\ invoked.kind # "none") =>
      /\ outcome.kind = "return"
      /\ outcome.value.provider = provider
      /\ agent.kind = "AgentExecutor"
      /\ (driver = "api" /\ calls < MaxCalls) => ENABLED ApiPlanTrip
      /\ invoked.kind = "raise" =>
            /\ outcome.value.status = "error"
            /\ outcome.value.message = invoked.exc
            /\ DOMAIN outcome.value = {"status", "provider", "message"}
      /\ invoked.kind = "return" =>
            /\ outcome.value.status = "success"
            /\ outcome.value.itinerary = invoked.value.output
            /\ DOMAIN outcome.value = {"status", "provider", "itinerary"}

C7_Witness ==
    /\ AiDone /\ invoked = Raised("Rate limit exceeded")
    /\ outcome.value.message = "Rate limit exceeded" /\ rounds = 3

\* the round bound was reached without a final answer
BoundReached == Finished /\ invoked.kind # "none" /\ rounds = 15

\* C8 as stated: at most 15 tool rounds per call, and a run that reaches the
\* bound without a final answer returns status error
C8_BoundIsError ==
    /\ rounds <= 15
    /\ BoundReached => (outcome.kind = "return" /\ outcome.value.status = "error")

FormInvalid(f) ==
    \/ f.source = "" \/ f.destination = ""
    \/ ~(ToOrdinal(f.end_date) > ToOrdinal(f.start_date))

\* C9: a button press with an empty city or with an end date not after the
\* start date shows a validation message and nothing else happens: no
\* instance, no detection, no plan_trip call
C9_RejectedEarly ==
    (form # NoneV /\ FormInvalid(form)) =>
      /\ ui.kind = "error"
      /\ ui.text \in {"Please fill in source and destination cities!",
                      "End date must be after start date!"}
      /\ pc = "idle"
      /\ llm = Unset /\ provider = "unset" /\ agent = Unset
      /\ tries = NoTries /\ log = <<>>
      /\ request = NoneV /\ calls = 0 /\ outcome = NoOutcome

C9_Witness ==
    /\ form # NoneV /\ form.source = "Delhi" /\ form.destination = "Goa"
    /\ form.start_date = form.end_date
    /\ ui = [kind |-> "error", text |-> "End date must be after start date!"]

C10_Themes ==
    <<"Beach relaxation & water sports", "Heritage sites & local culture",
      "Shopping & cuisine exploration", "Adventure activities",
      "Scenic tours & photography">>

\* C10: a demo plan has one day line per trip day, numbered in order, and the
\* day with 0-based index i has theme i mod 5 of the fixed list; day index 6
\* has the theme of day index 1
C10_ThemeRotation ==
    (DemoDone /\ GoodTrip(request)) =>
      LET lines == outcome.value.itinerary.day_lines
      IN /\ Len(lines) = Nights(request) + 1
         /\ \A n \in 1..Len(lines) :
               /\ lines[n].day = n
               /\ lines[n].activity = C10_Themes[((n - 1) % 5) + 1]
         /\ Len(lines) >= 7 => lines[7].activity = lines[2].activity

C10_Witness ==
    /\ DemoDone /\ GoodTrip(request)
    /\ Len(outcome.value.itinerary.day_lines) = 7
    /\ outcome.value.itinerary.day_lines[7].activity = "Heritage sites & local culture"


\* the local service answers 200 with JSON that lists no model: the list
\* is empty or the object has no "models"
NoModelsListed(w) ==
    /\ w.requests /\ w.net = "response" /\ w.status = HttpOk /\ w.body.valid
    /\ "models" \in DOMAIN w.body => w.body.models = <<>>

\* C24: when the local service answers but lists no model, the local step
\* prints a diagnostic and yields nothing, detection goes on to the cloud
\* step, and it ends with the cloud tag if the cloud step yields a handle
\* and with (None, "demo") otherwise, never with the local tag
C24_NoModelsContinues ==
    NoModelsListed(env.ollama) =>
      /\ provider # "ollama"
      /\ tries.ollama >= 1 =>
            /\ pc # "try_ollama"
            /\ Len(log) >= 2
            /\ log[2] \in {"Ollama running but no models found",
                            "langchain-community not installed"}
      /\ DetectionDone =>
            /\ tries = [ollama |-> 1, gemini |-> 1]
            /\ IF CloudHandle(env.gemini)
               THEN provider = "gemini" /\ llm.kind = "ChatGoogleGenerativeAI"
               ELSE provider = "demo" /\ llm = NoneV

\* the local service lists no model and a cloud handle was built
C24_Witness ==
    /\ pc = "ready" /\ provider = "gemini"
    /\ NoModelsListed(env.ollama) /\ env.ollama.community
    /\ "models" \in DOMAIN env.ollama.body
    /\ log[2] = "Ollama running but no models found"
    /\ log[3] = "Run: ollama pull llama3.2"

\* C25: on a constructed instance the engine handle is None exactly when
\* the provider tag is "demo" and exactly when the agent is None; the agent
\* invoked is never None; a result made without the engine carries the tag
\* "demo", a result made with it carries the tag detection ended with
C25_ModeConsistent ==
    /\ pc \in {"ready", "invoke"} =>
          /\ (llm = NoneV) <=> (provider = "demo")
          /\ (provider = "demo") <=> (agent = NoneV)
          /\ provider \in {"ollama", "gemini", "demo"}
          /\ provider = "ollama" => llm.kind = "Ollama"
          /\ provider = "gemini" => llm.kind = "ChatGoogleGenerativeAI"
    /\ pc = "invoke" => (agent # NoneV /\ agent.kind = "AgentExecutor" /\ agent.llm = llm)
    /\ (Finished /\ outcome.kind = "return") =>
          /\ outcome.value.provider = provider
          /\ invoked.kind = "none" <=> outcome.value.provider = "demo"

\* an instance whose detection ended with the local tag has returned the
\* result of a failed invoke, tagged "ollama"
C25_Witness ==
    /\ Finished /\ provider = "ollama" /\ llm.kind = "Ollama"
    /\ agent # NoneV /\ agent.agent = "structured_chat"
    /\ invoked.kind = "raise"
    /\ outcome.kind = "return" /\ outcome.value.provider = "ollama"

(***************************************************************************)
(* Properties of FlightSearchTool                                          *)
(***************************************************************************)
\* _sort_flights has returned
FlightsSorted == tpc \in {"format", "done"} /\ "sorted_flights" \in DOMAIN locals

\* the place (1-based) of record x in the sequence s of distinct records
PlaceIn(s, x) == CHOOSE i \in 1..Len(s) : s[i] = x

\* s and t hold the same records, each as often
SameRecords(s, t) ==
    /\ Len(s) = Len(t)
    /\ \A i \in 1..Len(s) :
          Cardinality({j \in 1..Len(s) : s[j] = s[i]})
            = Cardinality({j \in 1..Len(t) : t[j] = s[i]})

\* the field a request sorts by; any sort_by but "duration" is the price
SortField(sort_by) == IF sort_by = "duration" THEN "duration_minutes" ELSE "price"

\* C11: the sorted list is a permutation of the matching records, it is
\* non-decreasing in the price (sort_by = price) or in the duration minutes
\* (sort_by = duration), a record without the field counting with the key
\* the code gives it, and records with equal keys keep their dataset order
C11_SortedStable ==
    FlightsSorted =>
      LET m == locals.matching_flights
          s == locals.sorted_flights
          f == SortField(args.sort_by)
      IN /\ SameRecords(s, m)
         /\ \A i \in 1..Len(s), j \in 1..Len(s) :
               i < j =>
                 /\ (f \in DOMAIN s[i] /\ f \in DOMAIN s[j]) => s[i][f] <= s[j][f]
                 /\ SortKey(args.sort_by, s[i]) <= SortKey(args.sort_by, s[j])
                 /\ SortKey(args.sort_by, s[i]) = SortKey(args.sort_by, s[j])
                      => PlaceIn(m, s[i]) < PlaceIn(m, s[j])

\* three matching records, the first two tied on the price and out of order
\* on the duration, sorted by price: the tie keeps the dataset order
C11_Witness ==
    /\ FlightsSorted
    /\ args.sort_by = "price"
    /\ Len(locals.matching_flights) >= 3
    /\ \A i \in 1..Len(locals.sorted_flights) :
          "price" \in DOMAIN locals.sorted_flights[i]
    /\ \E i \in 1..Len(locals.sorted_flights) - 1 :
          /\ locals.sorted_flights[i].price = locals.sorted_flights[i + 1].price
          /\ locals.sorted_flights[i].duration_minutes
               > locals.sorted_flights[i + 1].duration_minutes
    /\ locals.sorted_flights # locals.matching_flights

\* _filter_flights has returned
FlightsFiltered == tpc \in {"sort", "format", "done"}

\* the city texts agree once both are lower-cased and trimmed
SameCity(a, b) == strip(lower(a)) = strip(lower(b))

\* C12: a record matches exactly when its source and its destination equal
\* the requested ones after case-folding and trimming of both the query
\* value and the record's field
C12_TrimmedOnBothSides ==
    FlightsFiltered =>
      \A i \in 1..Len(flights_data) :
         (\E j \in 1..Len(locals.matching_flights) :
             locals.matching_flights[j] = flights_data[i])
         <=> /\ SameCity(flights_data[i].source, args.source)
             /\ SameCity(flights_data[i].destination, args.destination)

\* the search has returned
FlightSearchDone == tpc = "done" /\ "matching_flights" \in DOMAIN locals

\* C13: without a matching record the result is the "no direct flights"
\* message, which is not the error message; a result that lists flights
\* lists the first three records of the sorted list, or all of them when
\* there are fewer, in that order
C13_NoResultsAndTopThree ==
    FlightSearchDone =>
      /\ locals.matching_flights = <<>> =>
            /\ ret.head = "No direct flights found"
            /\ ret.head # FlightSearchError("").head
            /\ ret.source = args.source /\ ret.destination = args.destination
      /\ locals.matching_flights # <<>> =>
            /\ ret.head \in {"Found", FlightSearchError("").head}
            /\ ret.head = "Found" =>
                 LET s == locals.sorted_flights
                 IN /\ ret.count = Len(s)
                    /\ Len(ret.listed) <= 3
                    /\ Len(ret.listed) = (IF Len(s) < 3 THEN Len(s) ELSE 3)
                    /\ \A i \in 1..Len(ret.listed) :
                          /\ ret.listed[i].no = i
                          /\ ret.listed[i].flight_id = s[i].flight_id

\* four records match and three are listed
C13_Witness ==
    /\ FlightSearchDone
    /\ Len(locals.matching_flights) = 4
    /\ ret.head = "Found"
    /\ Len(ret.listed) = 3
    /\ ret.listed[3].flight_id = locals.sorted_flights[3].flight_id


(***************************************************************************)
(* Properties of WeatherTool                                               *)
(***************************************************************************)
\* the weather lookup has returned
WeatherDone == tpc = "done" /\ "city" \in DOMAIN args /\ "days" \in DOMAIN args

\* the result is a forecast text
ForecastShown == WeatherDone /\ ret.head = "Weather Forecast for"

Min3(a, b, c) ==
    LET ab == IF a < b THEN a ELSE b
    IN IF ab < c THEN ab ELSE c

\* C14: whatever day count is asked for, every forecast request asks for at
\* most 7 days, a forecast shows at most min(days, 7, days returned) days,
\* and the lookup never ends in an index fault
C14_ClampedToSeven ==
    /\ \A i \in 1..Len(fetched) : fetched[i].forecast_days <= 7
    /\ WeatherDone =>
          ~(ret.head = "Error formatting weather data"
            /\ ret.detail = "list index out of range")
    /\ ForecastShown =>
          Len(ret.days) <= Min3(args.days, 7, Len(locals.weather_data.daily.time))

\* ten days are asked of a service that knows eight: seven are requested
\* and seven are shown
C14_Witness ==
    /\ ForecastShown
    /\ args.days = 10
    /\ Len(outside.daily.time) = 8
    /\ fetched[1].forecast_days = 7
    /\ Len(ret.days) = 7

\* the city asked for, lower-cased and trimmed, is a key of the gazetteer
KnownCity(city) ==
    \E i \in 1..Len(CITY_COORDINATES) : CITY_COORDINATES[i].key = strip(lower(city))

\* the result lists each name of the gazetteer, and nothing else
ListsKnownCities(text) ==
    /\ "available" \in DOMAIN text
    /\ {text.available[i] : i \in 1..Len(text.available)}
         = {CITY_COORDINATES[i].name : i \in 1..Len(CITY_COORDINATES)}
    /\ Len(text.available) = 14

\* C15: the lookup of a city that is not in the gazetteer after lower-casing
\* and trimming ends in the "not found" message that lists the known names,
\* without any request sent and never as a forecast; a city that is in the
\* gazetteer never gets that message
C15_UnknownCityFails ==
    WeatherDone =>
      /\ ~KnownCity(args.city) =>
            /\ ret.head = "City not found in database"
            /\ ret.city = args.city
            /\ ListsKnownCities(ret)
            /\ fetched = <<>>
      /\ KnownCity(args.city) =>
            /\ ret.head # "City not found in database"
            /\ Len(fetched) = 1

\* Paris is looked up and the answer lists the fourteen names from Agra on
C15_Witness ==
    /\ WeatherDone
    /\ args.city = City.Paris
    /\ ret.head = "City not found in database"
    /\ ret.available[1] = City.Agra
    /\ ret.available[6] = City.Goa
    /\ fetched = <<>>

\* the highs of the days a forecast shows
ShownHighs ==
    Prefix(locals.weather_data.daily.temperature_2m_max, Len(ret.days))

\* C16: the clothing advice follows the average high of the days shown: the
\* hot advice from 30 degrees on, the cold advice below 20, the moderate
\* advice between them
C16_AdviceByAverageHigh ==
    (ForecastShown /\ Len(ret.days) > 0) =>
       LET n == Len(ret.days)
           total == Sum(ShownHighs)
       IN ret.clothing = (IF total >= 30 * n THEN "light, breathable clothing"
                          ELSE IF total < 20 * n THEN "warm layers"
                          ELSE "comfortable clothing")


(***************************************************************************)
(* Properties of the agent's tool functions                                *)
(***************************************************************************)
\* the tool function `name` has returned
ToolDone(name) == tpc = "done" /\ "tool" \in DOMAIN args /\ args.tool = name

\* the input text is a JSON object
IsObject(text) ==
    json_loads(text).kind = "return" /\ "dict" \in DOMAIN json_loads(text).value

\* the value the returned text stands for
Answer == json_loads(ret).value

\* hotel h passes the bounds of query q; a bound that is absent passes all
PassesBounds(h, q) ==
    /\ dict_get(h, "rating", [n |-> 0]).n >= dict_get(q, "min_rating", [n |-> 0]).n
    /\ dict_get(q, "max_price", [null |-> TRUE]) = [null |-> TRUE]
         \/ dict_get(h, "price_per_night", [n |-> 0]).n <= dict_get(q, "max_price", [n |-> 0]).n

\* C17: every hotel that hotel_search returns has a rating of at least
\* min_rating and a price of at most max_price, where the query gives them
\* (so min_rating 4.0 and max_price 3000 exclude the 4.5-rated hotel at 3200)
C17_HotelsWithinBounds ==
    (ToolDone("hotel_search") /\ IsObject(args.input)) =>
       LET hotels == dict_get(Answer, "hotels", [list |-> <<>>]).list
       IN \A i \in 1..Len(hotels) : PassesBounds(hotels[i], json_loads(args.input).value)

\* the number the input object q gives under key k, or the default
Given(q, k, default) == dict_get(q, k, [n |-> default]).n

\* each of the four inputs the object q gives is a number
AllNumbers(q) ==
    \A k \in {"flight_price", "hotel_price", "nights", "daily_expense"} :
       "n" \in DOMAIN dict_get(q, k, [n |-> 0])

\* C18: for an input object whose inputs are numbers the budget calculator
\* returns the breakdown flight = flight price, hotel = nightly price x nights, daily =
\* daily rate x nights, total = their sum, with 4800, 3200, 800 and 3 nights
\* in place of a flight price, nightly price, daily rate or nights not given
C18_BudgetBreakdown ==
    (ToolDone("budget_calculator") /\ IsObject(args.input)
       /\ AllNumbers(json_loads(args.input).value)) =>
       LET q == json_loads(args.input).value
           b == dict_get(Answer, "breakdown", [dict |-> <<>>])
           Part(k) == dict_get(b, k, [null |-> TRUE])
           flight == Given(q, "flight_price", 4800)
           nightly == Given(q, "hotel_price", 3200)
           rate == Given(q, "daily_expense", 800)
           nights == Given(q, "nights", 3)
       IN /\ Part("flight") = [n |-> flight]
          /\ Part("hotel") = [n |-> nightly * nights]
          /\ Part("daily") = [n |-> rate * nights]
          /\ Part("total") = [n |-> flight + nightly * nights + rate * nights]
          /\ Part("total").n = Part("flight").n + Part("hotel").n + Part("daily").n

\* {"hotel_price": 2500, "nights": 2}: 4800 + 5000 + 1600 = 11400
C18_Witness ==
    /\ ToolDone("budget_calculator")
    /\ args.input = json_dumps(Dict(<< <<"hotel_price", [n |-> 2500]>>,
                                       <<"nights", [n |-> 2]>> >>))
    /\ Answer = Dict(<< <<"breakdown",
                          Dict(<< <<"flight", [n |-> 4800]>>, <<"hotel", [n |-> 5000]>>,
                                  <<"daily", [n |-> 1600]>>, <<"total", [n |-> 11400]>> >>)>> >>)

\* C19: each of the five tool functions answers an input text that is no
\* JSON with a failure result (status "error")
C19_MalformedInputFails ==
    (tpc = "done" /\ "tool" \in DOMAIN args /\ json_loads(args.input).kind = "raise") =>
       /\ json_loads(ret).kind = "return"
       /\ dict_get(Answer, "status", [null |-> TRUE]) = [s |-> "error"]


(***************************************************************************)
(* Properties of DataLoader                                                *)
(***************************************************************************)
\* a load has returned a collection, and the file it read
Loaded ==
    /\ tpc = "loader" /\ args # NoneV /\ ret # NoneV /\ ret.kind = "return"
    /\ outside # <<>> /\ outside[1].name = args.filename
    /\ json_loads(outside[1].text).kind = "return"

\* what the file read holds
FileValue == json_loads(outside[1].text).value

\* object v has the key k
HasKey(v, k) == \E i \in 1..Len(v.dict) : v.dict[i].k = k

\* the value of object v under the first of flights, hotels, places, data
\* that it has; v has one of them
UnderFirstKey(v) ==
    LET Under(k) == (CHOOSE i \in 1..Len(v.dict) : v.dict[i].k = k)
    IN IF HasKey(v, "flights") THEN v.dict[Under("flights")].v
       ELSE IF HasKey(v, "hotels") THEN v.dict[Under("hotels")].v
       ELSE IF HasKey(v, "places") THEN v.dict[Under("places")].v
       ELSE v.dict[Under("data")].v

HasCommonKey(v) == \E k \in {"flights", "hotels", "places", "data"} : HasKey(v, k)

\* C20 as stated: an array is returned as it is, an object with one of the
\* keys flights, hotels, places, data gives the value under the first of
\* them, and any other content, an object without these keys included,
\* gives an empty collection
C20_AsStated ==
    Loaded =>
      ret.value = (IF "list" \in DOMAIN FileValue THEN FileValue
                   ELSE IF "dict" \in DOMAIN FileValue /\ HasCommonKey(FileValue)
                   THEN UnderFirstKey(FileValue)
                   ELSE [list |-> <<>>])

\* C20 as amended: an array is returned as it is, an object with one of the
\* keys flights, hotels, places, data gives the value under the first of
\* them, an object with none of them gives the collection of that one
\* object, and a scalar gives an empty collection
C20_Normalized ==
    Loaded =>
      ret.value = (IF "list" \in DOMAIN FileValue THEN FileValue
                   ELSE IF "dict" \in DOMAIN FileValue /\ HasCommonKey(FileValue)
                   THEN UnderFirstKey(FileValue)
                   ELSE IF "dict" \in DOMAIN FileValue
                   THEN [list |-> <<FileValue>>]
                   ELSE [list |-> <<>>])

\* a file written {"data": ..., "flights": ...} gives what is under flights
C20_Witness ==
    /\ Loaded
    /\ "dict" \in DOMAIN FileValue
    /\ Len(FileValue.dict) >= 2
    /\ FileValue.dict[1].k = "data" /\ HasKey(FileValue, "flights")
    /\ ret.value = [list |-> <<Dict(<< <<"id", [n |-> 1]>> >>),
                               Dict(<< <<"id", [n |-> 2]>> >>)>>]


(***************************************************************************)
(* Properties of the cache of DataLoader                                   *)
(***************************************************************************)
\* the cache holds a result for the filename
Cached(filename) == \E i \in 1..Len(cache) : cache[i].k = filename

\* a step in which load_json is called (by load_flights, load_hotels or the
\* caller that goes through the further files): the files stay and the
\* step is not clear_cache
LoadStep ==
    /\ outside' = outside
    /\ args' # NoneV
    /\ cache = <<>> \/ cache' # <<>>

\* a call for a cached filename returns the cached collection and opens no
\* file, whatever the file holds by now
ServedFromCache ==
    LET f == args'.filename
    IN Cached(f) =>
         /\ ret' = Returned(dict_get([dict |-> cache], f, NoneV))
         /\ fetched' = <<>>

\* a call for a filename that is not cached reads the file, and a
\* collection it returns is cached as the most recently used entry
ReadOnMiss ==
    LET f == args'.filename
    IN ~Cached(f) =>
         /\ fetched' = <<f>>
         /\ ret' = load_json(outside, f)
         /\ ret'.kind = "return" =>
              /\ cache' # <<>>
              /\ cache'[Len(cache')] = [k |-> f, v |-> ret'.value]

\* every entry of the cache is still held after the step
Retained == \A i \in 1..Len(cache) : \E j \in 1..Len(cache') : cache'[j] = cache[i]

\* the call stores a further filename in a cache that holds maxsize
\* entries: the entry not used for the longest time goes, the others stay,
\* and a call for a cached filename makes its entry the last to go
Evicts ==
    /\ Len(cache) = maxsize
    /\ ~Cached(args'.filename)
    /\ ret'.kind = "return"
    /\ \A j \in 1..Len(cache') : cache'[j] # cache[1]
    /\ \A i \in 2..Len(cache) : \E j \in 1..Len(cache') : cache'[j] = cache[i]

\* the entry of the filename called for is the most recently used one
MostRecent ==
    Cached(args'.filename) =>
      /\ cache' # <<>>
      /\ cache'[Len(cache')].k = args'.filename

\* a step that is neither a call of load_json nor a change of the files is
\* clear_cache and leaves the cache empty
Cleared == (~LoadStep /\ outside' = outside) => cache' = <<>>

\* C21 as stated: the cache is filled by the first successful load of a
\* filename; a repeated load of a loaded filename returns the cached
\* collection without reading the file, and an entry is given up by
\* clear_cache only, however many filenames are loaded; after clear_cache
\* the next load of a filename reads the file
C21_AsStated ==
    [][ /\ LoadStep => ServedFromCache /\ ReadOnMiss /\ Retained
        /\ outside' # outside => cache' = cache
        /\ Cleared ]_vars

\* C21 as amended: as above while at most maxsize filenames are cached; the
\* load of a further filename gives up the least recently used entry, and
\* the next load of that filename reads the file
C21_UpToCapacity ==
    [][ /\ LoadStep => /\ ServedFromCache /\ ReadOnMiss /\ MostRecent
                       /\ Retained \/ Evicts
        /\ outside' # outside => cache' = cache
        /\ Cleared ]_vars

\* flights.json has just been served from a full cache that has given up
\* the first of the further files, although the file holds something else
\* by now
C21_Witness ==
    /\ tpc = "loader" /\ args = [filename |-> "flights.json"]
    /\ fetched = <<>> /\ ret.kind = "return"
    /\ load_json(outside, "flights.json") # ret
    /\ Len(cache) = maxsize /\ locals = [scanned |-> MaxExtras]
    /\ Cached("hotels.json") /\ ~Cached("extra-1.json")

\* the filename has a file in the directory
Exists(filename) == \E i \in 1..Len(outside) : outside[i].name = filename

\* the file of the filename holds JSON
Decodes(filename) ==
    /\ Exists(filename)
    /\ json_loads((CHOOSE f \in {outside[i] : i \in 1..Len(outside)} :
                      f.name = filename).text).kind = "return"

\* C22: a load that reads a missing file raises FileNotFoundError with the
\* path of the file in its text; a load that reads malformed JSON raises
\* ValueError; neither is cached, and a load of the same filename after
\* the file has become valid returns its collection
C22_FailuresNotCached ==
    [][ LoadStep =>
          LET f == args'.filename
          IN /\ (~Cached(f) /\ ~Exists(f)) =>
                  /\ ret'.kind = "raise"
                  /\ ret'.exc.type = "FileNotFoundError"
                  /\ ret'.exc.filepath = [data_path |-> "data/", filename |-> f]
                  /\ \A j \in 1..Len(cache') : cache'[j].k # f
             /\ (~Cached(f) /\ Exists(f) /\ ~Decodes(f)) =>
                  /\ ret'.kind = "raise"
                  /\ ret'.exc.type = "ValueError"
                  /\ \A j \in 1..Len(cache') : cache'[j].k # f
             /\ (args = args' /\ ret.kind = "raise" /\ Decodes(f)) =>
                  /\ ret'.kind = "return"
                  /\ ret' = load_json(outside, f)
                  /\ fetched' = <<f>> ]_vars

\* a load of flights.json has failed on malformed JSON while other
\* filenames are cached; the file has been repaired since and nothing is
\* cached for it
C22_Witness ==
    /\ tpc = "loader" /\ args = [filename |-> "flights.json"]
    /\ fetched = <<"flights.json">>
    /\ ret.kind = "raise" /\ ret.exc.type = "ValueError"
    /\ Decodes("flights.json") /\ ~Cached("flights.json")
    /\ Cached("hotels.json")


(***************************************************************************)
(* Properties of the formatters                                            *)
(***************************************************************************)
\* an itinerary has been rendered
Rendered == tpc = "rendered" /\ ret # NoneV /\ ret.kind = "return"

\* the places of the lines of the text that are the section heading t
HeadingsAt(t) == { i \in 1..Len(ret.value) : ret.value[i] = [text |-> t] }

\* the places of the lines of the text that open with the fixed part h
LinesAt(h) ==
    { i \in 1..Len(ret.value) :
        "head" \in DOMAIN ret.value[i] /\ ret.value[i].head = h }

\* the formatted amount on the line of the budget block that opens with
\* label: the budget block is what follows the last heading of that name
BudgetAmount(label) ==
    LET from == CHOOSE i \in HeadingsAt("BUDGET BREAKDOWN") :
                   \A j \in HeadingsAt("BUDGET BREAKDOWN") : j <= i
        at == CHOOSE i \in LinesAt(label) : i > from
    IN ret.value[at].amount

\* a formatted amount is the rupee sign and then digits in groups of three
\* from the right with a comma between the groups, and nothing else
InrFormatted(chars) ==
    /\ Len(chars) >= 2 /\ chars[1] = "Rs"
    /\ chars[2] # ","
    /\ \A i \in 2..Len(chars) :
          IF (Len(chars) - i + 1) % 4 = 0
          THEN chars[i] = ","
          ELSE chars[i] \in {"0", "1", "2", "3", "4", "5", "6", "7", "8", "9"}

RECURSIVE NumberRead(_)
\* the number a reader takes from the characters behind the rupee sign, the
\* commas passed over
NumberRead(chars) ==
    IF chars = <<>> THEN 0
    ELSE LET last == chars[Len(chars)]
             front == SubSeq(chars, 1, Len(chars) - 1)
         IN IF last = "," THEN NumberRead(front)
            ELSE 10 * NumberRead(front)
                   + (CHOOSE d \in 0..9 :
                        <<"0", "1", "2", "3", "4", "5", "6", "7", "8", "9">>[d + 1] = last)

\* the value read back from the budget line that opens with label, in whole
\* units
ReadBack(label) == NumberRead(Tail(BudgetAmount(label)))

\* the lines of the budget block and the budget values they show
BudgetLines ==
    LET budget == args.itinerary.budget
    IN { <<"Flight:              ", budget.flight>>,
         <<"Hotel:               ", budget.hotel>>,
         <<"Food & Travel:       ", budget.food_and_travel>>,
         <<"Activities:          ", budget.activities>>,
         <<"TOTAL COST:          ", budget.total>> }

\* header, flight, hotel, weather, day-by-day and budget come once each and
\* in this order, one weather line per day of forecast between the weather
\* heading and the next
SectionsInOrder ==
    LET Only(S) == CHOOSE i \in S : TRUE
        Order == << LinesAt("YOUR "), HeadingsAt("FLIGHT SELECTED"),
                    HeadingsAt("HOTEL BOOKED"), HeadingsAt("WEATHER FORECAST"),
                    HeadingsAt("DAY-WISE ITINERARY"), HeadingsAt("BUDGET BREAKDOWN") >>
    IN /\ \A k \in 1..Len(Order) : Cardinality(Order[k]) = 1
       /\ \A k \in 1..Len(Order) - 1 : Only(Order[k]) < Only(Order[k + 1])
       /\ Cardinality({ i \in 1..Len(ret.value) :
                          /\ "temp_high" \in DOMAIN ret.value[i]
                          /\ i > Only(Order[4]) /\ i < Only(Order[5]) })
            = Len(args.itinerary.weather)

\* C23 as stated: every amount of the budget block is written with the
\* rupee sign, thousands separators and no decimals, reading it back gives
\* the budget value exactly, and the sections come in the fixed order
C23_AsStated ==
    Rendered =>
      /\ \A l \in BudgetLines :
            /\ InrFormatted(BudgetAmount(l[1]))
            /\ 2 * ReadBack(l[1]) = l[2]
      /\ SectionsInOrder

\* C23 as amended: as above, but reading an amount back gives the budget
\* value rounded to the nearest whole unit, a value midway between two
\* going to the even one; a whole value is read back exactly
C23_RoundTrip ==
    Rendered =>
      /\ \A l \in BudgetLines :
            /\ InrFormatted(BudgetAmount(l[1]))
            /\ \/ 2 * ReadBack(l[1]) = l[2]
               \/ /\ l[2] % 2 = 1
                  /\ 2 * ReadBack(l[1]) \in {l[2] - 1, l[2] + 1}
                  /\ ReadBack(l[1]) % 2 = 0
      /\ SectionsInOrder

\* a trip of MaxPlanDays days whose hotel cost of 2.5 reads back as 2 and
\* whose total is written with two thousands separators
C23_Witness ==
    /\ Rendered
    /\ args.itinerary.num_days = MaxPlanDays
    /\ args.itinerary.budget.hotel = 5
    /\ ReadBack("Hotel:               ") = 2
    /\ args.itinerary.budget.activities = 2 * 500
    /\ Len(BudgetAmount("TOTAL COST:          ")) = 10
    /\ ReadBack("Flight:              ") = 1234567

====
